---- MODULE Spec2Model ----
(***************************************************************************)
(* A model of the terminol terminal core: the Terminal controller         *)
(* (src/terminol/common/terminal.cxx), the parts of Buffer it relies on   *)
(* (src/terminol/common/buffer.hxx), and the X11 front end that drives it *)
(* (src/terminol/xcb/screen.cxx, src/terminol/xcb/terminol.cxx).          *)
(*                                                                         *)
(* The handlers of the controller are pure operators over a record M of   *)
(* the controller's fields; an action applies one handler to the current  *)
(* state.  Several specifications share the variables: each one drives    *)
(* the part of the program its properties are about and leaves the rest   *)
(* alone.                                                                  *)
(***************************************************************************)
EXTENDS Integers, Sequences, FiniteSets, TLC

VARIABLES
    rows, cols,         \* Buffer::getRows() / getCols(), equal for both buffers
    cursor,             \* Terminal::_cursor
    savedCursor,        \* Terminal::_savedCursor
    modes,              \* Terminal::_modes
    buffer,             \* Terminal::_buffer: "pri" or "alt"
    margins,            \* Buffer::_marginBegin/_marginEnd of each buffer
    tabs,               \* Terminal::_tabs
    pressed,            \* Terminal::_pressed
    button,             \* Terminal::_button
    pointerPos,         \* Terminal::_pointerPos
    search,             \* Buffer::_search: <<>> or one Search
    regex,              \* the Regex the last construction yielded: <<>> or one Regex
    hexNum,             \* test(): num
    tmpAscii,           \* test(): tmpAscii
    tmpNum,             \* test(): tmpNum
    aline,              \* one Buffer::ALine
    deduper,            \* the Deduper the two buffers share
    hist,               \* Buffer::_tags, _lostTags and _history of each buffer
    content,            \* the lines of one buffer: its columns, history and active region
    rowDamage,          \* one Buffer::Damage
    added,              \* history: the non-empty intervals added to it since its last reset
    match,              \* one call of Regex::matchAllOffsets: its Regex, arguments and locals
    selOp,              \* history: what the last pointer handler did besides reporting
    pointer,            \* Screen::_pressed, _button and _pressCount
    asserts,            \* history: the Terminal handlers whose ASSERT on _pressed failed
    cells,              \* the active region of each buffer
    lastOp,             \* history: the handler that ran last
    req,                \* history: the position handed to the last moveCursor
    lastArgs,           \* history: the arguments of the last CSI sequence, or the
                        \* character of the last machineNormal
    typed,              \* history: how many printable characters were written
    writeBuffer,        \* Terminal::_writeBuffer
    dumpWrites,         \* Terminal::_dumpWrites
    ttyOut,             \* the bytes the tty has accepted, in order
    sent,               \* history: the outbound payloads in the order generated
    ttyErr,             \* history: a tty write has raised I_Tty::Error
    dispatch,           \* Terminal::_dispatch
    pc,                 \* where the thread is: in the event loop, in read(), in windowSync()
    xevents,            \* the X events waiting in the connection's queue
    reached,            \* history: Terminal operations entered while _dispatch was set
    open,               \* Screen::_open
    syncTty,            \* Config::_syncTty
    pending,            \* bytes the current read() has pulled and not yet applied
    early,              \* history: a frame was drawn while pulled bytes were unapplied
    exits,              \* history: the exit codes handed to terminalChildExited
    damage,             \* the damage of each row of the active buffer
    dirty,              \* history: cells changed since the renderer last consumed damage
    mapped,             \* Screen::_mapped
    deferred,           \* Screen::_deferred
    styles,             \* the styles of the cells of one row
    runs,               \* history: the runs the last Terminal::draw emitted for it
    screen,             \* Screen: its geometries, pixmap, surface and delete request
    evloop,             \* EventLoop::_deferral and _windowOpen
    watch,              \* history: what the Screen handlers received, drew and asserted
    sgr                 \* one call of Terminal::processAttributes: its arguments and locals

mouseVars  == <<pressed, button, pointerPos>>
searchVars == <<search, regex>>
hexVars    == <<hexNum, tmpAscii, tmpNum>>
lineVars   == <<aline>>
dedupVars  == <<deduper, hist>>
reflowVars == <<content>>
rowVars    == <<rowDamage, added>>
matchVars  == <<match>>
selVars    == <<selOp>>
pointerVars == <<pointer, asserts>>
extVars    == <<rowVars, matchVars, selVars, pointerVars>>
bufferVars == <<searchVars, hexVars, lineVars, dedupVars, reflowVars, extVars>>
coreVars   == <<rows, cols, cursor, savedCursor, modes, buffer, margins, tabs, cells, mouseVars,
                bufferVars>>
histVars   == <<lastOp, req, lastArgs, typed>>
ioVars     == <<writeBuffer, dumpWrites, ttyOut, sent, ttyErr>>
pumpVars   == <<syncTty, pending, early, exits>>
syncVars   == <<dispatch, pc, xevents, reached, open, pumpVars>>
screenVars == <<screen, evloop, watch>>
attrVars   == <<sgr>>
drawVars   == <<styles, runs, screenVars, attrVars>>
damageVars == <<damage, dirty, mapped, deferred, drawVars>>
vars == <<coreVars, histVars, ioVars, syncVars, damageVars>>

(***************************************************************************)
(* Bounds of the model.                                                    *)
(***************************************************************************)
MaxRows == 2         \* rows of the grids of Spec
MaxCols == 2         \* columns of every grid
MaxTallRows == 3     \* rows of the grids of the specifications with few actions
MaxArg  == 3         \* largest CSI argument
MaxTyped == 3        \* printable characters written in a run of SpecWrite
MaxSent == 6         \* outbound bytes generated in a run of SpecIO

(***************************************************************************)
(* Program constants.                                                      *)
(***************************************************************************)
TAB_SIZE == 8

DefaultModes == {"AUTO_WRAP", "SHOW_CURSOR", "AUTO_REPEAT", "ALT_SENDS_ESC"}

Chars == {"A", "B"}

Pos(r, c) == [row |-> r, col |-> c]

(* Style::normal(), as far as SGR 0, 1 and 30..37 change it.               *)
StyleNormal == [bold |-> FALSE, fg |-> "normal"]

(* Cell::utf8(seq, style) and Cell::ascii(c, style).                       *)
Cell(ch, style) == [ch |-> ch, style |-> style]

Blank == Cell(" ", StyleNormal)

(* cs names the designation in use, g0 or g1.                              *)
NewCursor == [row |-> 0, col |-> 0, wrapNext |-> FALSE, originMode |-> FALSE,
              style |-> StyleNormal, cs |-> "g0", g0 |-> "CS_US", g1 |-> "CS_US"]

NewTabs(ncols) == [i \in 0 .. ncols - 1 |-> (i + 1) % TAB_SIZE = 0]

NewGrid(nrows, ncols) == [r \in 0 .. nrows - 1 |-> [c \in 0 .. ncols - 1 |-> Blank]]

NewMargins(nrows) == [begin |-> 0, end |-> nrows]

(* The controller's state as one record, the argument of every handler.   *)
M == [rows |-> rows, cols |-> cols, cursor |-> cursor, savedCursor |-> savedCursor,
      modes |-> modes, buffer |-> buffer, margins |-> margins, tabs |-> tabs,
      cells |-> cells]

NewTerminal(nrows, ncols) ==
    [rows |-> nrows, cols |-> ncols, cursor |-> NewCursor, savedCursor |-> NewCursor,
     modes |-> DefaultModes, buffer |-> "pri",
     margins |-> [pri |-> NewMargins(nrows), alt |-> NewMargins(nrows)],
     tabs |-> NewTabs(ncols),
     cells |-> [pri |-> NewGrid(nrows, ncols), alt |-> NewGrid(nrows, ncols)]]

clamp(val, min, max) == IF val < min THEN min ELSE IF val > max THEN max ELSE val

nthArg(args, n, fallback) == IF n < Len(args) THEN args[n + 1] ELSE fallback

nthArgNonZero(args, n, fallback) ==
    LET arg == nthArg(args, n, fallback) IN IF arg # 0 THEN arg ELSE fallback

getMarginBegin(m) == m.margins[m.buffer].begin
getMarginEnd(m)   == m.margins[m.buffer].end

(***************************************************************************)
(* Buffer operations.                                                      *)
(***************************************************************************)
resetMargins(m) == [m EXCEPT !.margins[m.buffer] = NewMargins(m.rows)]

setMargins(m, begin, end) ==
    IF end > begin
    THEN [m EXCEPT !.margins[m.buffer] =
              [begin |-> clamp(begin, 0, m.rows), end |-> clamp(end, 0, m.rows)]]
    ELSE resetMargins(m)

setCell(m, pos, cell) == [m EXCEPT !.cells[m.buffer][pos.row][pos.col] = cell]

(* n cells from pos on, on the row of pos.                                 *)
setCells(m, pos, n, cell) ==
    [m EXCEPT !.cells[m.buffer][pos.row] =
        [c \in 0 .. m.cols - 1 |-> IF c >= pos.col /\ c < pos.col + n THEN cell ELSE @[c]]]

insertCells(m, pos, n) ==
    [m EXCEPT !.cells[m.buffer][pos.row] =
        [c \in 0 .. m.cols - 1 |->
            IF c < pos.col THEN @[c]
            ELSE IF c < pos.col + n THEN Blank
            ELSE @[c - n]]]

(* One line leaves the top of the margin area, a blank one enters at its  *)
(* bottom.                                                                 *)
addLine(m) ==
    LET b == getMarginBegin(m)
        e == getMarginEnd(m)
    IN [m EXCEPT !.cells[m.buffer] =
           [r \in 0 .. m.rows - 1 |->
               IF r < b \/ r >= e THEN @[r]
               ELSE IF r = e - 1 THEN [c \in 0 .. m.cols - 1 |-> Blank]
               ELSE @[r + 1]]]

(* A line enters at row, the lines below it move down within the margins. *)
insertLines(m, row, n) ==
    LET e == getMarginEnd(m)
    IN [m EXCEPT !.cells[m.buffer] =
           [r \in 0 .. m.rows - 1 |->
               IF r < row \/ r >= e THEN @[r]
               ELSE IF r < row + n THEN [c \in 0 .. m.cols - 1 |-> Blank]
               ELSE @[r - n]]]

(* n lines leave at row, the lines below them move up within the margins. *)
eraseLines(m, row, n) ==
    LET e == getMarginEnd(m)
    IN [m EXCEPT !.cells[m.buffer] =
           [r \in 0 .. m.rows - 1 |->
               IF r < row \/ r >= e THEN @[r]
               ELSE IF r + n < e THEN @[r + n]
               ELSE [c \in 0 .. m.cols - 1 |-> Blank]]]

clear(m) == [m EXCEPT !.cells[m.buffer] = NewGrid(m.rows, m.cols)]

(* Buffer::resize(rows, cols, cursorRow) returns the adjustment of the    *)
(* cursor row; the row it yields lies on the new grid.                     *)
BufferResizeAdj(nrows, cursorRow) == (0 - cursorRow) .. (nrows - 1 - cursorRow)

ResizeGrid(g, orows, ocols, nrows, ncols) ==
    [r \in 0 .. nrows - 1 |-> [c \in 0 .. ncols - 1 |->
        IF r < orows /\ c < ocols THEN g[r][c] ELSE Blank]]

(***************************************************************************)
(* Terminal: the cursor.                                                   *)
(***************************************************************************)
moveCursorUnclamped(m, pos) ==
    [m EXCEPT !.cursor.row = IF pos.row < 0 THEN 0 ELSE pos.row,
              !.cursor.col = IF pos.col < 0 THEN 0 ELSE pos.col,
              !.cursor.wrapNext = FALSE]

moveCursorIgnoringOrigin(m, pos) ==
    [m EXCEPT !.cursor.row = clamp(pos.row, 0, m.rows - 1),
              !.cursor.col = clamp(pos.col, 0, m.cols - 1),
              !.cursor.wrapNext = FALSE]

moveCursor(m, pos) ==
    LET row == IF m.cursor.originMode
               THEN clamp(pos.row, getMarginBegin(m), getMarginEnd(m) - 1)
               ELSE clamp(pos.row, 0, m.rows - 1)
    IN [m EXCEPT !.cursor.row = row,
                 !.cursor.col = clamp(pos.col, 0, m.cols - 1),
                 !.cursor.wrapNext = FALSE]

OriginPos(m, pos) ==
    Pos(pos.row + (IF m.cursor.originMode THEN getMarginBegin(m) ELSE 0), pos.col)

moveCursorOriginMode(m, pos) == moveCursor(m, OriginPos(m, pos))

RECURSIVE TabForwardCol(_, _, _)
TabForwardCol(m, col, count) ==
    IF count = 0 THEN col
    ELSE IF col + 1 = m.cols THEN col
    ELSE TabForwardCol(m, col + 1, IF m.tabs[col + 1] THEN count - 1 ELSE count)

RECURSIVE TabBackwardCol(_, _, _)
TabBackwardCol(m, col, count) ==
    IF count = 0 THEN col
    ELSE IF col = 0 THEN col
    ELSE TabBackwardCol(m, col - 1, IF m.tabs[col - 1] THEN count - 1 ELSE count)

tabCursorIgnoresStops(m, dir, count) ==
    moveCursor(m, Pos(m.cursor.row,
                      IF count = 0 THEN m.cursor.col
                      ELSE IF dir = "FORWARD" THEN m.cols - 1 ELSE 0))

tabCursor(m, dir, count) ==
    LET col == IF dir = "FORWARD" THEN TabForwardCol(m, m.cursor.col, count)
               ELSE TabBackwardCol(m, m.cursor.col, count)
    IN moveCursor(m, Pos(m.cursor.row, col))

(***************************************************************************)
(* Terminal::resize.  priAdj and altAdj are what the two Buffer::resize   *)
(* calls return.                                                           *)
(***************************************************************************)
ResizeRowArgs(m) ==
    IF m.buffer # "pri" THEN [pri |-> m.savedCursor.row, alt |-> m.cursor.row]
    ELSE [pri |-> m.cursor.row, alt |-> m.savedCursor.row]

resize(m, nrows, ncols, priAdj, altAdj) ==
    LET wrapNext == IF m.cursor.wrapNext /\ m.cursor.col # ncols - 1
                    THEN FALSE ELSE m.cursor.wrapNext
        cursorAdj      == IF m.buffer # "pri" THEN altAdj ELSE priAdj
        savedCursorAdj == IF m.buffer # "pri" THEN priAdj ELSE altAdj
        row0 == m.cursor.row + cursorAdj
        col  == clamp(m.cursor.col, 0, ncols - 1)
        row  == IF ~(row0 < nrows) THEN nrows - 1 ELSE row0
    IN [m EXCEPT !.rows = nrows, !.cols = ncols,
                 !.cursor.wrapNext = wrapNext,
                 !.cursor.row = row,
                 !.cursor.col = col,
                 !.savedCursor.row = @ + savedCursorAdj,
                 !.savedCursor.col = clamp(col, 0, ncols - 1),
                 !.tabs = NewTabs(ncols),
                 !.margins = [pri |-> NewMargins(nrows), alt |-> NewMargins(nrows)],
                 !.cells = [b \in {"pri", "alt"} |->
                               ResizeGrid(m.cells[b], m.rows, m.cols, nrows, ncols)]]

(***************************************************************************)
(* Terminal::resetAll.                                                     *)
(***************************************************************************)
resetAll(m) ==
    [clear(m) EXCEPT !.modes = DefaultModes,
                     !.tabs = NewTabs(m.cols),
                     !.cursor = NewCursor,
                     !.savedCursor = NewCursor]

(***************************************************************************)
(* Terminal::machineNormal: a printable character.                         *)
(***************************************************************************)
LineFeedScrollsAtLastRow(m) ==
    IF m.cursor.row = m.rows - 1
    THEN addLine(m)
    ELSE moveCursor(m, Pos(m.cursor.row + 1, m.cursor.col))

LineFeed(m) ==
    IF m.cursor.row = getMarginEnd(m) - 1
    THEN addLine(m)
    ELSE moveCursor(m, Pos(m.cursor.row + 1, m.cursor.col))

WrapFirst(m) ==
    IF m.cursor.wrapNext /\ "AUTO_WRAP" \in m.modes
    THEN LET a == moveCursor(m, Pos(m.cursor.row, 0))
         IN IF a.cursor.row = getMarginEnd(a) - 1
            THEN addLine(a)
            ELSE moveCursor(a, Pos(a.cursor.row + 1, a.cursor.col))
    ELSE m

machineNormalEagerWrap(m, ch) ==
    LET m3 == setCell(m, Pos(m.cursor.row, m.cursor.col), Cell(ch, m.cursor.style))
    IN IF m3.cursor.col = m3.cols - 1 /\ "AUTO_WRAP" \in m3.modes
       THEN LineFeed(moveCursor(m3, Pos(m3.cursor.row, 0)))
       ELSE moveCursor(m3, Pos(m3.cursor.row, m3.cursor.col + 1))

machineNormal(m, ch) ==
    LET m1 == WrapFirst(m)
        m2 == IF "INSERT" \in m1.modes
              THEN insertCells(m1, Pos(m1.cursor.row, m1.cursor.col), 1) ELSE m1
        m3 == setCell(m2, Pos(m2.cursor.row, m2.cursor.col), Cell(ch, m2.cursor.style))
    IN IF m3.cursor.col = m3.cols - 1
       THEN [m3 EXCEPT !.cursor.wrapNext = TRUE]
       ELSE moveCursor(m3, Pos(m3.cursor.row, m3.cursor.col + 1))

(***************************************************************************)
(* Terminal::machineControl: the C0 controls.                              *)
(***************************************************************************)
BSWrapsAtTopMargin(m) ==
    IF m.cursor.wrapNext THEN [m EXCEPT !.cursor.wrapNext = FALSE]
    ELSE IF m.cursor.col = 0
         THEN IF "AUTO_WRAP" \in m.modes /\ m.cursor.row > 0
              THEN moveCursor(m, Pos(m.cursor.row - 1, m.cols - 1))
              ELSE m
         ELSE moveCursor(m, Pos(m.cursor.row, m.cursor.col - 1))

BS(m) ==
    IF m.cursor.wrapNext THEN [m EXCEPT !.cursor.wrapNext = FALSE]
    ELSE IF m.cursor.col = 0
         THEN IF "AUTO_WRAP" \in m.modes /\ m.cursor.row > getMarginBegin(m)
              THEN moveCursor(m, Pos(m.cursor.row - 1, m.cols - 1))
              ELSE m
         ELSE moveCursor(m, Pos(m.cursor.row, m.cursor.col - 1))

machineControl(m, c) ==
    CASE c = "HT" -> tabCursor(m, "FORWARD", 1)
      [] c = "BS" -> BS(m)
      [] c = "CR" -> moveCursor(m, Pos(m.cursor.row, 0))
      [] c = "LF" ->
            LineFeed(IF "CR_ON_LF" \in m.modes
                     THEN moveCursor(m, Pos(m.cursor.row, 0)) ELSE m)
      [] c \in {"FF", "VT"} -> LineFeed(m)
      [] c = "SO" -> [m EXCEPT !.cursor.cs = "g1"]
      [] c = "SI" -> [m EXCEPT !.cursor.cs = "g0"]
      [] OTHER -> m

(***************************************************************************)
(* Terminal::machineSpecial: ESC ( and ESC ) designate G0 and G1.          *)
(***************************************************************************)
CharSubOf(code) ==
    CASE code = "0" -> "CS_SPECIAL" [] code = "A" -> "CS_UK" [] code = "B" -> "CS_US"

machineSpecial(m, special, code) ==
    IF code \notin {"0", "A", "B"} THEN m
    ELSE CASE special = "(" -> [m EXCEPT !.cursor.g0 = CharSubOf(code)]
           [] special = ")" -> [m EXCEPT !.cursor.g1 = CharSubOf(code)]
           [] OTHER -> m

(***************************************************************************)
(* Terminal::processAttributes (SGR): reset and bold.                      *)
(***************************************************************************)
Palette(index) == "palette" \o ToString(index)

RECURSIVE processAttributes(_, _)
processAttributes(m, args) ==
    IF args = <<>> THEN m
    ELSE LET v  == Head(args)
             m1 == CASE v = 0 -> [m EXCEPT !.cursor.style = StyleNormal]
                     [] v = 1 -> [m EXCEPT !.cursor.style.bold = TRUE]
                     [] v >= 30 /\ v < 38 ->
                            [m EXCEPT !.cursor.style.fg = Palette(v - 30)]
                     [] OTHER -> m
         IN processAttributes(m1, Tail(args))

(***************************************************************************)
(* Terminal::machineEscape.                                                *)
(***************************************************************************)
machineEscapeRestoresPos(m, c) ==
    CASE c = "7" -> [m EXCEPT !.savedCursor = m.cursor]
      [] c = "8" -> moveCursor(m, Pos(m.savedCursor.row, m.savedCursor.col))
      [] OTHER -> m

machineEscape(m, c) ==
    CASE c = "D" -> LineFeed(m)
      [] c = "E" -> LineFeed(moveCursor(m, Pos(m.cursor.row, 0)))
      [] c = "H" -> [m EXCEPT !.tabs[m.cursor.col] = TRUE]
      [] c = "M" ->
            IF m.cursor.row = getMarginBegin(m)
            THEN insertLines(m, getMarginBegin(m), 1)
            ELSE moveCursor(m, Pos(m.cursor.row - 1, m.cursor.col))
      [] c = "c" -> resetAll(m)
      [] c = "=" -> [m EXCEPT !.modes = @ \cup {"APPKEYPAD"}]
      [] c = ">" -> [m EXCEPT !.modes = @ \ {"APPKEYPAD"}]
      [] c = "7" -> [m EXCEPT !.savedCursor = m.cursor]
      [] c = "8" -> [m EXCEPT !.cursor = m.savedCursor]
      [] OTHER -> m

(***************************************************************************)
(* Terminal::processModes, one argument of SM / RM.                        *)
(***************************************************************************)
setTo(m, mode, set) ==
    [m EXCEPT !.modes = IF set THEN @ \cup {mode} ELSE @ \ {mode}]

SaveOrRestore(m, set) ==
    IF set THEN [m EXCEPT !.savedCursor = m.cursor]
    ELSE [m EXCEPT !.cursor = m.savedCursor]

(* 1000, 1002: enable xterm mouse report.                                  *)
setMouseModeKeepsOther(m, set, a) ==
    IF a = 1000 THEN setTo(m, "MOUSE_BUTTON", set) ELSE setTo(m, "MOUSE_MOTION", set)

setMouseMode(m, set, a) ==
    IF a = 1000 THEN setTo(setTo(m, "MOUSE_BUTTON", set), "MOUSE_MOTION", FALSE)
    ELSE setTo(setTo(m, "MOUSE_MOTION", set), "MOUSE_BUTTON", FALSE)

processMode(m, priv, set, a) ==
    IF priv
    THEN CASE a = 1 -> setTo(m, "APPCURSOR", set)
           [] a = 5 -> setTo(m, "REVERSE", set)
           [] a = 6 -> moveCursorOriginMode([m EXCEPT !.cursor.originMode = set], Pos(0, 0))
           [] a = 7 -> setTo(m, "AUTO_WRAP", set)
           [] a = 8 -> setTo(m, "AUTO_REPEAT", set)
           [] a = 25 -> setTo(m, "SHOW_CURSOR", set)
           [] a \in {1000, 1002} -> setMouseMode(m, set, a)
           [] a = 1006 -> setTo(m, "MOUSE_SGR", set)
           [] a = 1037 -> setTo(m, "DELETE_SENDS_DEL", set)
           [] a = 1039 -> setTo(m, "ALT_SENDS_ESC", set)
           [] a \in {1049, 47, 1047} ->
                LET m1 == IF m.buffer = "alt" THEN clear(m) ELSE m
                    m2 == [m1 EXCEPT !.buffer = IF set THEN "alt" ELSE "pri"]
                IN IF a # 1049 THEN m2 ELSE SaveOrRestore(m2, set)
           [] a = 1048 -> SaveOrRestore(m, set)
           [] a = 2004 -> setTo(m, "BRACKETED_PASTE", set)
           [] OTHER -> m
    ELSE CASE a = 2 -> setTo(m, "KBDLOCK", set)
           [] a = 4 -> setTo(m, "INSERT", set)
           [] a = 12 -> setTo(m, "ECHO", set)
           [] a = 20 -> setTo(m, "CR_ON_LF", set)
           [] OTHER -> m

RECURSIVE processModes(_, _, _, _)
processModes(m, priv, set, args) ==
    IF args = <<>> THEN m
    ELSE processModes(processMode(m, priv, set, Head(args)), priv, set, Tail(args))

(***************************************************************************)
(* Terminal::machineCsi: the sequences that move the cursor or set the    *)
(* margins.  The status queries write to the pty and are modelled with    *)
(* the outbound path.                                                      *)
(***************************************************************************)
DECSTBMUnclamped(m, args) ==
    IF args = <<>>
    THEN moveCursorOriginMode(resetMargins(m), Pos(0, 0))
    ELSE LET top    == nthArgNonZero(args, 0, 1) - 1
             bottom == nthArgNonZero(args, 1, m.cursor.row + 1) - 1
             m1     == IF bottom > top
                       THEN [m EXCEPT !.margins[m.buffer] =
                                 [begin |-> top, end |-> bottom + 1]]
                       ELSE resetMargins(m)
         IN moveCursorOriginMode(m1, Pos(0, 0))

DECSTBM(m, args) ==
    IF args = <<>>
    THEN moveCursorOriginMode(resetMargins(m), Pos(0, 0))
    ELSE LET top0    == nthArgNonZero(args, 0, 1) - 1
             bottom0 == nthArgNonZero(args, 1, m.cursor.row + 1) - 1
             top     == clamp(top0, 0, m.rows - 1)
             bottom  == clamp(bottom0, 0, m.rows - 1)
             m1      == IF bottom > top THEN setMargins(m, top, bottom + 1)
                        ELSE resetMargins(m)
         IN moveCursorOriginMode(m1, Pos(0, 0))

CsiMovePosZeroIndexed(m, args, mode) ==
    IF mode \in {"f", "H"}
    THEN OriginPos(m, Pos(nthArg(args, 0, 1), nthArg(args, 1, 1)))
    ELSE Pos(m.cursor.row, m.cursor.col)

(* The position a cursor-movement sequence hands to moveCursor.            *)
CsiMovePos(m, args, mode) ==
    CASE mode = "A" -> Pos(m.cursor.row - nthArgNonZero(args, 0, 1), m.cursor.col)
      [] mode = "B" -> Pos(m.cursor.row + nthArgNonZero(args, 0, 1), m.cursor.col)
      [] mode = "C" -> Pos(m.cursor.row, m.cursor.col + nthArgNonZero(args, 0, 1))
      [] mode = "D" -> Pos(m.cursor.row, m.cursor.col - nthArgNonZero(args, 0, 1))
      [] mode = "E" -> Pos(m.cursor.row + nthArgNonZero(args, 0, 1), 0)
      [] mode = "F" -> Pos(m.cursor.row - nthArgNonZero(args, 0, 1), 0)
      [] mode \in {"G", "HPA"} -> Pos(m.cursor.row, nthArgNonZero(args, 0, 1) - 1)
      [] mode \in {"f", "H"} ->
            OriginPos(m, Pos(nthArg(args, 0, 1) - 1, nthArg(args, 1, 1) - 1))
      [] mode = "d" -> OriginPos(m, Pos(nthArg(args, 0, 1) - 1, m.cursor.col))

CsiMoves == {"A", "B", "C", "D", "E", "F", "G", "HPA", "f", "H", "d"}

(* IL and DL.                                                              *)
CsiLinesOutsideMargins(m, args, mode) ==
    LET count == nthArgNonZero(args, 0, 1)
    IN IF mode = "L" THEN insertLines(m, m.cursor.row, count)
       ELSE eraseLines(m, m.cursor.row, count)

CsiLines(m, args, mode) ==
    IF m.cursor.row >= getMarginBegin(m) /\ m.cursor.row < getMarginEnd(m)
    THEN LET n     == nthArgNonZero(args, 0, 1)
             room  == getMarginEnd(m) - m.cursor.row
             count == IF n < room THEN n ELSE room
         IN IF mode = "L" THEN insertLines(m, m.cursor.row, count)
            ELSE eraseLines(m, m.cursor.row, count)
    ELSE m

(* ECH.                                                                    *)
CsiECHZeroBlanksNothing(m, args) ==
    setCells(m, Pos(m.cursor.row, m.cursor.col), nthArg(args, 0, 0),
             Cell(" ", m.cursor.style))

CsiECH(m, args) ==
    setCells(m, Pos(m.cursor.row, m.cursor.col), nthArgNonZero(args, 0, 1),
             Cell(" ", m.cursor.style))

machineCsi(m, priv, args, mode) ==
    CASE mode \in CsiMoves -> moveCursor(m, CsiMovePos(m, args, mode))
      [] mode \in {"L", "M"} -> CsiLines(m, args, mode)
      [] mode = "X" -> CsiECH(m, args)
      [] mode = "I" -> tabCursor(m, "FORWARD", nthArg(args, 0, 1))
      [] mode = "J" ->
            IF nthArg(args, 0, 0) = 2 THEN moveCursor(clear(m), Pos(0, 0)) ELSE m
      [] mode = "Z" -> tabCursor(m, "BACKWARD", nthArgNonZero(args, 0, 1))
      [] mode = "g" ->
            CASE nthArg(args, 0, 0) = 0 -> [m EXCEPT !.tabs[m.cursor.col] = FALSE]
              [] nthArg(args, 0, 0) = 3 -> [m EXCEPT !.tabs = [i \in DOMAIN m.tabs |-> FALSE]]
              [] OTHER -> m
      [] mode = "h" -> processModes(m, priv, TRUE, args)
      [] mode = "l" -> processModes(m, priv, FALSE, args)
      [] mode = "m" -> processAttributes(m, IF args = <<>> THEN <<0>> ELSE args)
      [] mode = "r" -> IF priv THEN m ELSE DECSTBM(m, args)
      [] mode = "s" -> [m EXCEPT !.savedCursor.row = m.cursor.row,
                                 !.savedCursor.col = m.cursor.col]
      [] mode = "u" -> moveCursor(m, Pos(m.savedCursor.row, m.savedCursor.col))
      [] OTHER -> m

(***************************************************************************)
(* The inputs the model draws from.                                        *)
(***************************************************************************)
Args == 0 .. MaxArg
ArgLists1 == {<<>>} \cup {<<a>> : a \in Args}
ArgLists2 == ArgLists1 \cup {<<a, b>> : a \in Args, b \in Args}
Sizes == (1 .. MaxRows) \X (1 .. MaxCols)
TallSizes == (1 .. MaxTallRows) \X (1 .. MaxCols)

Controls     == {"HT", "BS", "CR", "LF", "FF", "VT"}
Escapes      == {"D", "E", "M", "c", "7", "8"}
MoveCodes    == {"A", "B", "C", "D", "E", "F", "G", "d", "I", "Z"}
PrivModes    == {6, 7, 1047, 1048, 1049}

(***************************************************************************)
(* Specification Spec: the cursor, the margins and the modes under pty    *)
(* input and resizes.  No handler of this part reads a cell, so the cells *)
(* are kept blank here; SpecWrite follows them.                            *)
(***************************************************************************)
Install(m) ==
    /\ rows' = m.rows
    /\ cols' = m.cols
    /\ cursor' = m.cursor
    /\ savedCursor' = m.savedCursor
    /\ modes' = m.modes
    /\ buffer' = m.buffer
    /\ margins' = m.margins
    /\ tabs' = m.tabs
    /\ UNCHANGED <<mouseVars, bufferVars>>

InstallCursor(m) ==
    /\ Install(m)
    /\ cells' = [b \in {"pri", "alt"} |-> NewGrid(m.rows, m.cols)]

XCB_BUTTON_INDEX_ANY == 0

(* Buffer::Damage::Damage(): initially there is no damage.                 *)
NoDamage == [begin |-> 0, end |-> 0]

InitExt ==
    /\ rowDamage = NoDamage
    /\ added = {}
    /\ match = [pc |-> "idle", pattern |-> "a", text |-> <<>>, offset |-> 0,
                offsets |-> <<>>, allOffsets |-> <<>>]
    /\ selOp = "none"
    /\ pointer = [pressed |-> FALSE, button |-> XCB_BUTTON_INDEX_ANY, pressCount |-> 0]
    /\ asserts = {}

InitBuffer ==
    /\ search = <<>>
    /\ regex = <<>>
    /\ hexNum = 0
    /\ tmpAscii = <<>>
    /\ tmpNum = 0
    /\ aline = [cells |-> <<Blank>>, cont |-> FALSE, wrap |-> 0]
    /\ deduper = [entries |-> {}, refs |-> [p \in {"p", "q"} |-> 0]]
    /\ hist = [b \in {"pri", "alt"} |-> [tags |-> <<>>, lostTags |-> 0, history |-> <<>>]]
    /\ content = [cols |-> MaxCols, history |-> <<>>,
                  active |-> [r \in 1 .. MaxRows |-> [cells |-> <<>>, cont |-> FALSE]]]
    /\ InitExt

InitCore(nrows, ncols) ==
    /\ rows = nrows
    /\ cols = ncols
    /\ cursor = NewCursor
    /\ savedCursor = NewCursor
    /\ modes = DefaultModes
    /\ buffer = "pri"
    /\ margins = [pri |-> NewMargins(nrows), alt |-> NewMargins(nrows)]
    /\ tabs = NewTabs(ncols)
    /\ cells = [b \in {"pri", "alt"} |-> NewGrid(nrows, ncols)]
    /\ pressed = FALSE
    /\ button = "LEFT"        \* not read before the first press sets it
    /\ pointerPos = Pos(0, 0)
    /\ InitBuffer

InitHist ==
    /\ lastOp = "init"
    /\ req = Pos(0, 0)
    /\ lastArgs = <<>>
    /\ typed = 0

InitIO ==
    /\ writeBuffer = <<>>
    /\ dumpWrites = FALSE
    /\ ttyOut = <<>>
    /\ sent = <<>>
    /\ ttyErr = FALSE

InitSync ==
    /\ dispatch = FALSE
    /\ pc = "loop"
    /\ xevents = <<>>
    /\ reached = {}
    /\ open = TRUE
    /\ syncTty = FALSE
    /\ pending = 0
    /\ early = FALSE
    /\ exits = <<>>

(* Screen::Screen and EventLoop::EventLoop: the window has the size of the *)
(* widest grid of one row, is not mapped and has neither pixmap nor        *)
(* surface.                                                                *)
Geometry(width, height, x) == [width |-> width, height |-> height, x |-> x]

InitScreenWith(transparency) ==
    /\ screen = [geometry |-> Geometry(MaxCols, 1, 0),
                 deferredGeometry |-> Geometry(MaxCols, 1, 0),
                 deferralsAllowed |-> TRUE,
                 x11PseudoTransparency |-> transparency,
                 pixmap |-> 0,
                 surface |-> FALSE,
                 hadDeleteRequest |-> FALSE,
                 entitlement |-> "PERMANENT",
                 title |-> "title"]
    /\ evloop = [deferral |-> FALSE, windowOpen |-> TRUE]
    /\ watch = [received |-> <<MaxCols, 1>>,
                notified |-> 0,
                pixmapFor |-> <<>>,
                drewStale |-> FALSE,
                copied |-> FALSE,
                destroyed |-> FALSE,
                lastMap |-> "none",
                sinceDelete |-> "clear",
                subprocess |-> TRUE,
                failed |-> {}]

(* No call of Terminal::processAttributes has been made.                   *)
DefaultColor == [kind |-> "default", index |-> 0]

InitAttributes ==
    sgr = [pc |-> "idle", args |-> <<>>, i |-> 0, fg |-> DefaultColor,
           bg |-> DefaultColor, reads |-> {}]

(* The specifications of the Terminal alone have no Screen, no EventLoop  *)
(* and no call of processAttributes in progress.                           *)
InitScreen ==
    /\ screen = <<>>
    /\ evloop = <<>>
    /\ watch = <<>>
    /\ sgr = <<>>

InitDamage ==
    /\ damage = <<>>
    /\ dirty = {}
    /\ mapped = FALSE
    /\ deferred = FALSE
    /\ styles = <<>>
    /\ runs = <<>>
    /\ InitScreen

Init ==
    /\ \E sz \in Sizes : InitCore(sz[1], sz[2])
    /\ InitHist /\ InitIO /\ InitSync /\ InitDamage

Normal ==
    /\ \E ch \in Chars : InstallCursor(machineNormal(M, ch))
    /\ UNCHANGED <<histVars, ioVars, syncVars, damageVars>>

Control ==
    /\ \E c \in Controls : InstallCursor(machineControl(M, c))
    /\ UNCHANGED <<histVars, ioVars, syncVars, damageVars>>

Escape ==
    /\ \E c \in Escapes : InstallCursor(machineEscape(M, c))
    /\ UNCHANGED <<histVars, ioVars, syncVars, damageVars>>

CsiMove ==
    /\ \E mode \in MoveCodes, args \in ArgLists1 :
          InstallCursor(machineCsi(M, FALSE, args, mode))
    /\ UNCHANGED <<histVars, ioVars, syncVars, damageVars>>

CsiCUP ==
    /\ \E args \in ArgLists2 : InstallCursor(machineCsi(M, FALSE, args, "H"))
    /\ UNCHANGED <<histVars, ioVars, syncVars, damageVars>>

CsiDECSTBM ==
    /\ \E args \in ArgLists2 : InstallCursor(machineCsi(M, FALSE, args, "r"))
    /\ UNCHANGED <<histVars, ioVars, syncVars, damageVars>>

CsiSaveRestore ==
    /\ \E mode \in {"s", "u"} : InstallCursor(machineCsi(M, FALSE, <<>>, mode))
    /\ UNCHANGED <<histVars, ioVars, syncVars, damageVars>>

CsiED ==
    /\ InstallCursor(machineCsi(M, FALSE, <<2>>, "J"))
    /\ UNCHANGED <<histVars, ioVars, syncVars, damageVars>>

CsiPrivMode ==
    /\ \E mode \in {"h", "l"}, a \in PrivModes :
          InstallCursor(machineCsi(M, TRUE, <<a>>, mode))
    /\ UNCHANGED <<histVars, ioVars, syncVars, damageVars>>

Resize ==
    /\ \E sz \in Sizes :
       \E priAdj \in BufferResizeAdj(sz[1], ResizeRowArgs(M).pri),
          altAdj \in BufferResizeAdj(sz[1], ResizeRowArgs(M).alt) :
          InstallCursor(resize(M, sz[1], sz[2], priAdj, altAdj))
    /\ UNCHANGED <<histVars, ioVars, syncVars, damageVars>>

Next ==
    \/ Normal
    \/ Control
    \/ Escape
    \/ CsiMove
    \/ CsiCUP
    \/ CsiDECSTBM
    \/ CsiSaveRestore
    \/ CsiED
    \/ CsiPrivMode
    \/ Resize

Spec == Init /\ [][Next]_vars

(***************************************************************************)
(* C1: in every reachable state the cursor lies on the grid:               *)
(* 0 <= cursor.row < rows and 0 <= cursor.col < cols.                      *)
(***************************************************************************)
CursorContained ==
    /\ 0 <= cursor.row /\ cursor.row < rows
    /\ 0 <= cursor.col /\ cursor.col < cols

(* Reached: on the alternative buffer of a grid that a resize has shrunk, *)
(* with the cursor restored to the last cell and about to wrap.           *)
CursorContainedWitness ==
    /\ buffer = "alt"
    /\ rows = 1 /\ cols = MaxCols
    /\ savedCursor.originMode
    /\ cursor.originMode
    /\ cursor.col = cols - 1 /\ cursor.wrapNext

(***************************************************************************)
(* Specification SpecMove: the cursor-movement sequences on grids tall    *)
(* enough for partial margins, with the requested position recorded.      *)
(***************************************************************************)
InitMove ==
    /\ \E sz \in TallSizes : InitCore(sz[1], sz[2])
    /\ InitHist /\ InitIO /\ InitSync /\ InitDamage

MoveCsi ==
    /\ \E mode \in CsiMoves, args \in ArgLists2 :
          /\ Len(args) <= (IF mode \in {"f", "H"} THEN 2 ELSE 1)
          /\ InstallCursor(machineCsi(M, FALSE, args, mode))
          /\ req' = CsiMovePos(M, args, mode)
          /\ lastArgs' = args
    /\ lastOp' = "moveCursor"
    /\ UNCHANGED <<typed, ioVars, syncVars, damageVars>>

InstallOther(m) ==
    /\ InstallCursor(m)
    /\ lastOp' = "other"
    /\ req' = Pos(0, 0)
    /\ lastArgs' = <<>>
    /\ UNCHANGED <<typed, ioVars, syncVars, damageVars>>

MoveNormal == InstallOther(machineNormal(M, "A"))

MoveDECOM == \E mode \in {"h", "l"} : InstallOther(machineCsi(M, TRUE, <<6>>, mode))

MoveDECSTBM == \E args \in ArgLists2 : InstallOther(machineCsi(M, FALSE, args, "r"))

NextMove ==
    \/ MoveCsi
    \/ MoveNormal
    \/ MoveDECOM
    \/ MoveDECSTBM

SpecMove == InitMove /\ [][NextMove]_vars

(***************************************************************************)
(* C6: after a cursor-movement sequence the cursor row is the requested   *)
(* row clamped to [margin_begin, margin_end) in origin mode and to        *)
(* [0, rows) otherwise, the column is the requested column clamped to     *)
(* [0, cols), and wrap_next is clear.                                      *)
(***************************************************************************)
Nearest(v, lo, hi, got) ==
    /\ lo <= got /\ got < hi
    /\ (v < lo => got = lo)
    /\ (v >= hi => got = hi - 1)
    /\ (lo <= v /\ v < hi => got = v)

MoveCursorClamps ==
    lastOp = "moveCursor" =>
        /\ IF cursor.originMode
           THEN Nearest(req.row, margins[buffer].begin, margins[buffer].end, cursor.row)
           ELSE Nearest(req.row, 0, rows, cursor.row)
        /\ Nearest(req.col, 0, cols, cursor.col)
        /\ ~cursor.wrapNext

(* Reached: in origin mode under margins that start below row 0, a        *)
(* request above the grid is clamped to the top margin.                    *)
MoveCursorClampsWitness ==
    /\ lastOp = "moveCursor"
    /\ cursor.originMode
    /\ margins[buffer].begin > 0
    /\ req.row < 0
    /\ cursor.row = margins[buffer].begin
    /\ cols > 1 /\ cursor.col = cols - 1

(***************************************************************************)
(* Specification SpecMargins: DECSTBM, DECOM, the buffer switch and       *)
(* resizes on grids tall enough for partial margins, with the arguments   *)
(* of the last DECSTBM recorded.                                           *)
(***************************************************************************)
MarginsDECSTBM ==
    /\ \E args \in ArgLists2 :
          /\ InstallCursor(machineCsi(M, FALSE, args, "r"))
          /\ lastArgs' = args
    /\ lastOp' = "DECSTBM"
    /\ req' = Pos(cursor.row, cursor.col)
    /\ UNCHANGED <<typed, ioVars, syncVars, damageVars>>

MarginsDECOM == \E mode \in {"h", "l"} : InstallOther(machineCsi(M, TRUE, <<6>>, mode))

MarginsAlt == \E mode \in {"h", "l"} : InstallOther(machineCsi(M, TRUE, <<1047>>, mode))

MarginsCUD == \E args \in ArgLists1 : InstallOther(machineCsi(M, FALSE, args, "B"))

MarginsResize ==
    \E sz \in TallSizes :
    \E priAdj \in BufferResizeAdj(sz[1], ResizeRowArgs(M).pri),
       altAdj \in BufferResizeAdj(sz[1], ResizeRowArgs(M).alt) :
       InstallOther(resize(M, sz[1], sz[2], priAdj, altAdj))

NextMargins ==
    \/ MarginsDECSTBM
    \/ MarginsDECOM
    \/ MarginsAlt
    \/ MarginsCUD
    \/ MarginsResize

SpecMargins == InitMove /\ [][NextMargins]_vars

(***************************************************************************)
(* C8: in every reachable state both buffers' margins satisfy             *)
(* 0 <= margin_begin < margin_end <= rows; after a DECSTBM the margins    *)
(* of the active buffer are either the requested ones, bottom > top and   *)
(* clamped to the grid, or the full screen, and the cursor is at the      *)
(* origin: column 0, row margin_begin in origin mode and row 0 otherwise. *)
(***************************************************************************)
MarginsOk(b) ==
    /\ 0 <= margins[b].begin
    /\ margins[b].begin < margins[b].end
    /\ margins[b].end <= rows

RequestedTop == IF lastArgs[1] # 0 THEN lastArgs[1] - 1 ELSE 0

RequestedBottom ==
    IF Len(lastArgs) >= 2 /\ lastArgs[2] # 0 THEN lastArgs[2] - 1 ELSE req.row

MarginsInvariant ==
    /\ MarginsOk("pri") /\ MarginsOk("alt")
    /\ lastOp = "DECSTBM" =>
          /\ \/ margins[buffer] = [begin |-> 0, end |-> rows]
             \/ /\ lastArgs # <<>>
                /\ \E top, bottom \in 0 .. rows - 1 :
                      /\ Nearest(RequestedTop, 0, rows, top)
                      /\ Nearest(RequestedBottom, 0, rows, bottom)
                      /\ bottom > top
                      /\ margins[buffer] = [begin |-> top, end |-> bottom + 1]
          /\ cursor.col = 0
          /\ cursor.row = IF cursor.originMode THEN margins[buffer].begin ELSE 0

(* Reached: on the alternative buffer in origin mode, a DECSTBM with two  *)
(* arguments installs margins that start below row 0 and the cursor goes  *)
(* to their first row.                                                     *)
MarginsInvariantWitness ==
    /\ lastOp = "DECSTBM"
    /\ Len(lastArgs) = 2
    /\ buffer = "alt"
    /\ cursor.originMode
    /\ margins["alt"].begin > 0
    /\ margins["pri"] # margins["alt"]
    /\ cursor.row = margins["alt"].begin

(***************************************************************************)
(* Specification SpecWrite: printable characters on a grid whose cells    *)
(* are followed, with the cursor moved by CUD and CR, the margins set by  *)
(* DECSTBM and origin mode by DECOM.  AUTO_WRAP stays set, as at          *)
(* construction.  A run writes at most MaxTyped characters.               *)
(***************************************************************************)
InstallWrite(m, op, args) ==
    /\ Install(m)
    /\ cells' = m.cells
    /\ lastOp' = op
    /\ lastArgs' = args
    /\ req' = Pos(0, 0)
    /\ UNCHANGED <<ioVars, syncVars, damageVars>>

WriteNormal ==
    /\ typed < MaxTyped
    /\ typed' = typed + 1
    /\ \E ch \in Chars : InstallWrite(machineNormal(M, ch), "normal", <<ch>>)

WriteCUD ==
    /\ UNCHANGED typed
    /\ InstallWrite(machineCsi(M, FALSE, <<>>, "B"), "other", <<>>)

WriteCR ==
    /\ UNCHANGED typed
    /\ InstallWrite(machineControl(M, "CR"), "other", <<>>)

WriteDECSTBM ==
    /\ UNCHANGED typed
    /\ \E args \in {<<>>} \cup {a \in Args \X Args : a[1] < a[2]} :
          InstallWrite(machineCsi(M, FALSE, args, "r"), "other", <<>>)

WriteDECOM ==
    /\ UNCHANGED typed
    /\ \E mode \in {"h", "l"} :
          InstallWrite(machineCsi(M, TRUE, <<6>>, mode), "other", <<>>)

NextWrite ==
    \/ WriteNormal
    \/ WriteCUD
    \/ WriteCR
    \/ WriteDECSTBM
    \/ WriteDECOM

SpecWrite == InitMove /\ [][NextWrite]_vars

(***************************************************************************)
(* C7 as claimed: with AUTO_WRAP set, a printable character written at    *)
(* the last column is stored there, the cursor stays at column cols-1 and *)
(* wrap_next is set; the next printable character is written at column 0  *)
(* of the following row, or of the same row after one scroll when the     *)
(* cursor is on the bottom margin row, and the cursor is left at column 1.*)
(***************************************************************************)
NormalStep ==
    /\ lastOp' = "normal"
    /\ typed' = typed + 1
    /\ "AUTO_WRAP" \in modes

StoredAtLastColumn ==
    (cursor.col = cols - 1 /\ ~cursor.wrapNext) =>
        /\ cells'[buffer][cursor.row][cols - 1] = Cell(lastArgs'[1], cursor.style)
        /\ cursor'.row = cursor.row
        /\ cursor'.col = cols - 1
        /\ cursor'.wrapNext

OnBottomMargin == cursor.row = margins[buffer].end - 1

ScrolledOnce ==
    \A r \in margins[buffer].begin .. margins[buffer].end - 2 :
        \A c \in 0 .. cols - 1 :
            (r # cursor.row \/ c # 0) => cells'[buffer][r][c] = cells[buffer][r + 1][c]

WrappedTo(target, col) ==
    /\ target < rows
    /\ cells'[buffer][target][0] = Cell(lastArgs'[1], cursor.style)
    /\ cursor'.row = target
    /\ cursor'.col = col
    /\ OnBottomMargin => ScrolledOnce

WrapTarget ==
    IF OnBottomMargin \/ cursor.row = rows - 1 THEN cursor.row ELSE cursor.row + 1

OnlyCellChanged(row, col) ==
    \A r \in 0 .. rows - 1 : \A c \in 0 .. cols - 1 :
        (r # row \/ c # col) => cells'[buffer][r][c] = cells[buffer][r][c]

IO == [writeBuffer |-> writeBuffer, dumpWrites |-> dumpWrites,
       ttyOut |-> ttyOut, ttyErr |-> ttyErr]

TtyOutcomes(data) ==
    {o \in (0 .. Len(data)) \X BOOLEAN : o[2] => o[1] < Len(data)}

ttyLoop(io, data, k, err) ==
    IF err
    THEN [io EXCEPT !.ttyOut = @ \o SubSeq(data, 1, k),
                    !.dumpWrites = TRUE,
                    !.writeBuffer = <<>>,
                    !.ttyErr = TRUE]
    ELSE [io EXCEPT !.ttyOut = @ \o SubSeq(data, 1, k),
                    !.writeBuffer = SubSeq(data, k + 1, Len(data))]

write(io, data, k, err) ==
    IF io.dumpWrites THEN io
    ELSE IF io.writeBuffer = <<>> THEN ttyLoop(io, data, k, err)
    ELSE [io EXCEPT !.writeBuffer = @ \o data]

flush(io, k, err) == ttyLoop(io, io.writeBuffer, k, err)

Digits == <<"0", "1", "2", "3", "4", "5", "6", "7", "8", "9">>

(* operator << of std::ostream on an integer: its decimal digits.          *)
RECURSIVE Dec(_)
Dec(n) == IF n < 10 THEN <<Digits[n + 1]>> ELSE Dec(n \div 10) \o <<Digits[(n % 10) + 1]>>

PrimaryDA == <<"ESC", "[", "?", "6", "c">>

DeviceOK == <<"ESC", "[", "0", "n">>

CursorPositionReportZeroBased(row, col) ==
    <<"ESC", "[">> \o Dec(row) \o <<";">> \o Dec(col) \o <<"R">>

CursorPositionReport(row, col) ==
    <<"ESC", "[">> \o Dec(row + 1) \o <<";">> \o Dec(col + 1) \o <<"R">>

(* Terminal::machineCsi, 'n': the reply goes to the front of the queue.   *)
DSRReply(m, args) ==
    CASE nthArg(args, 0, 0) = 5 -> DeviceOK
      [] nthArg(args, 0, 0) = 6 ->
            CursorPositionReport(
                m.cursor.row - (IF m.cursor.originMode THEN getMarginBegin(m) ELSE 0),
                m.cursor.col)
      [] OTHER -> <<>>

deviceStatusReport(m, io, args) ==
    IF args = <<>> THEN io
    ELSE [io EXCEPT !.writeBuffer = DSRReply(m, args) \o @]

KeyPayloads == {<<"a">>, <<"b", "c">>}

(***************************************************************************)
(* Specification SpecIO: key input and pastes, the status queries that    *)
(* arrive on the pty and flushes, against a tty that accepts bytes as it  *)
(* pleases.  A run generates at most MaxSent outbound bytes.               *)
(***************************************************************************)
InitOut ==
    /\ InitCore(MaxRows, MaxCols)
    /\ InitHist /\ InitIO /\ InitSync /\ InitDamage

InstallIO(io, op, args, payload) ==
    /\ writeBuffer' = io.writeBuffer
    /\ dumpWrites' = io.dumpWrites
    /\ ttyOut' = io.ttyOut
    /\ ttyErr' = io.ttyErr
    /\ sent' = sent \o payload
    /\ lastOp' = op
    /\ lastArgs' = args
    /\ UNCHANGED <<coreVars, req, typed, syncVars, damageVars>>

IOWrite ==
    \E data \in KeyPayloads : \E o \in TtyOutcomes(data) :
        /\ Len(sent) + Len(data) <= MaxSent
        /\ InstallIO(write(IO, data, o[1], o[2]), "write", <<>>, data)

IODA ==
    \E o \in TtyOutcomes(PrimaryDA) :
        /\ Len(sent) + Len(PrimaryDA) <= MaxSent
        /\ InstallIO(write(IO, PrimaryDA, o[1], o[2]), "DA", <<>>, PrimaryDA)

IODSR ==
    \E args \in {<<5>>, <<6>>} :
        /\ Len(sent) + Len(DSRReply(M, args)) <= MaxSent
        /\ InstallIO(deviceStatusReport(M, IO, args), "DSR", args, DSRReply(M, args))

IOFlush ==
    /\ writeBuffer # <<>>
    /\ \E o \in TtyOutcomes(writeBuffer) :
          InstallIO(flush(IO, o[1], o[2]), "flush", <<>>, <<>>)

NextIO ==
    \/ IOWrite
    \/ IODA
    \/ IODSR
    \/ IOFlush

SpecIO == InitOut /\ [][NextIO]_vars

(***************************************************************************)
(* C2: as long as no tty error has occurred, the bytes the tty accepted   *)
(* followed by the bytes still queued are exactly the outbound payloads   *)
(* in the order they were generated.                                       *)
(***************************************************************************)
OutboundFifo == ~ttyErr => ttyOut \o writeBuffer = sent

(***************************************************************************)
(* C3: after a pty write error the controller is in drop-writes state and *)
(* the outbound queue is, and stays, empty.                                *)
(***************************************************************************)
DropWritesQueueEmpty ==
    /\ ttyErr => dumpWrites
    /\ dumpWrites => writeBuffer = <<>>

(***************************************************************************)
(* Specification SpecQuery: one status query, asked after the cursor, the *)
(* margins and origin mode have been set by CUP, DECSTBM and DECOM and    *)
(* after at most one key has been written.  A run ends with the query.    *)
(***************************************************************************)
Asking == lastOp \notin {"DA", "DSR"}

QueryCUP ==
    /\ Asking
    /\ \E args \in ArgLists2 : InstallOther(machineCsi(M, FALSE, args, "H"))

QueryDECOM ==
    /\ Asking
    /\ \E mode \in {"h", "l"} : InstallOther(machineCsi(M, TRUE, <<6>>, mode))

QueryDECSTBM ==
    /\ Asking
    /\ \E args \in ArgLists2 : InstallOther(machineCsi(M, FALSE, args, "r"))

QueryKey ==
    /\ Asking
    /\ sent = <<>>
    /\ \E o \in TtyOutcomes(<<"a">>) :
          InstallIO(write(IO, <<"a">>, o[1], o[2]), "write", <<>>, <<"a">>)

QueryDA ==
    /\ Asking
    /\ \E o \in TtyOutcomes(PrimaryDA) :
          InstallIO(write(IO, PrimaryDA, o[1], o[2]), "DA", <<>>, PrimaryDA)

QueryDSR ==
    /\ Asking
    /\ \E args \in {<<5>>, <<6>>} :
          InstallIO(deviceStatusReport(M, IO, args), "DSR", args, DSRReply(M, args))

NextQuery ==
    \/ QueryCUP
    \/ QueryDECOM
    \/ QueryDECSTBM
    \/ QueryKey
    \/ QueryDA
    \/ QueryDSR

SpecQuery == InitMove /\ [][NextQuery]_vars

(***************************************************************************)
(* C9 as claimed: each status query adds exactly its reply to the         *)
(* outbound bytes: CSI c adds ESC [ ? 6 c, CSI 5 n adds ESC [ 0 n, and    *)
(* CSI 6 n adds ESC [ r ; c R with r = cursor.row + 1, c = cursor.col + 1.*)
(* The claim is read in its favour: a CSI c answered in drop-writes state *)
(* or cut short by a tty error is not held against it.                     *)
(***************************************************************************)
Numeral(n) ==
    CASE n = 0 -> "0" [] n = 1 -> "1" [] n = 2 -> "2" [] n = 3 -> "3" [] n = 4 -> "4"
      [] n = 5 -> "5" [] n = 6 -> "6" [] n = 7 -> "7" [] n = 8 -> "8" [] n = 9 -> "9"

(* The outbound bytes a step adds: those the tty accepted in it, then     *)
(* those it added to the queue, at its front or at its back.              *)
Gained ==
    LET out == SubSeq(ttyOut', Len(ttyOut) + 1, Len(ttyOut'))
        n   == Len(writeBuffer') - Len(writeBuffer)
    IN out \o (IF n <= 0 THEN <<>>
               ELSE IF SubSeq(writeBuffer', n + 1, Len(writeBuffer')) = writeBuffer
                    THEN SubSeq(writeBuffer', 1, n)
                    ELSE SubSeq(writeBuffer', Len(writeBuffer) + 1, Len(writeBuffer')))

RepliesDeviceOK ==
    (lastOp' = "DSR" /\ lastArgs' = <<5>>) => Gained = <<"ESC", "[", "0", "n">>

RepliesCursor(r, c) ==
    (lastOp' = "DSR" /\ lastArgs' = <<6>>) =>
        Gained = <<"ESC", "[", Numeral(r), ";", Numeral(c), "R">>

StatusRepliesClaimed ==
    [][/\ (lastOp' = "DA" /\ ~dumpWrites /\ ~ttyErr') =>
             Gained = <<"ESC", "[", "?", "6", "c">>
       /\ RepliesDeviceOK
       /\ RepliesCursor(cursor.row + 1, cursor.col + 1)]_vars

(***************************************************************************)
(* C9 amended: CSI c adds ESC [ ? 6 c unless the controller is in         *)
(* drop-writes state, where it adds nothing, or the tty raises an error   *)
(* in this write, which enters drop-writes state; CSI 5 n adds ESC [ 0 n; *)
(* CSI 6 n adds ESC [ r ; c R with c = cursor.col + 1 and r =             *)
(* cursor.row + 1 with origin mode off, cursor.row - margin_begin + 1     *)
(* with origin mode on.                                                    *)
(***************************************************************************)
StatusReplies ==
    [][/\ lastOp' = "DA" =>
             IF dumpWrites THEN Gained = <<>> /\ writeBuffer' = writeBuffer
             ELSE IF ttyErr' THEN dumpWrites' /\ writeBuffer' = <<>>
             ELSE Gained = <<"ESC", "[", "?", "6", "c">>
       /\ RepliesDeviceOK
       /\ RepliesCursor(
             cursor.row + 1 - (IF cursor.originMode THEN margins[buffer].begin ELSE 0),
             cursor.col + 1)]_vars

(* Reached: a cursor position report asked in origin mode under margins   *)
(* that start below row 0, from a row below the first of the margins,     *)
(* while a key is still queued.                                            *)
StatusRepliesWitness ==
    /\ lastOp = "DSR" /\ lastArgs = <<6>>
    /\ cursor.originMode
    /\ margins[buffer].begin > 0
    /\ cursor.row > margins[buffer].begin
    /\ cursor.col > 0
    /\ Len(writeBuffer) = 7

(***************************************************************************)
(* The host loop and the read pump.  EventLoop::loop dispatches the X     *)
(* events that are queued, applies a deferred configure, and lets the pty *)
(* handlers run: Terminal::read when the pty is readable, Terminal::flush *)
(* when bytes are queued.  Terminal::read blocks in EventLoop::windowSync *)
(* when a DECCOLM request resizes the window; the X server queues events  *)
(* at any time.                                                            *)
(***************************************************************************)
MaxEvents == 2

XEvents == {"KEY_PRESS", "BUTTON_PRESS", "SELECTION_NOTIFY", "CONFIGURE_NOTIFY"}

(* The Terminal operation a Screen handler calls for an event.             *)
TerminalOp(e) ==
    CASE e = "KEY_PRESS" -> "keyPress"
      [] e = "BUTTON_PRESS" -> "buttonPress"
      [] e = "SELECTION_NOTIFY" -> "paste"
      [] e = "CONFIGURE_NOTIFY" -> "resize"

(* The bytes Terminal::keyPress and Terminal::paste hand to write().       *)
Payload(e) == IF e = "KEY_PRESS" THEN <<"a">> ELSE <<"b", "c">>

(* DECCOLM asks for 24 x 132 or 24 x 80; here the widest and the next     *)
(* narrower grid of full height.                                           *)
ColumnMode(set) == <<MaxRows, IF set THEN MaxCols ELSE MaxCols - 1>>

(* The sizes a configure notification reports in this specification.      *)
ColumnSizes == {ColumnMode(TRUE), ColumnMode(FALSE)}

(* The operations entered so far while _dispatch was set, op included.    *)
Entered(op) == IF dispatch THEN reached \cup {op} ELSE reached

(* Terminal::read, the value of _dispatch when it returns.                 *)
readReturnsInCatch(exited) == exited

readDispatch(exited) == FALSE

(* The X server queues an event.  A run types at most MaxTyped bytes.      *)
XArrive ==
    /\ Len(xevents) < MaxEvents
    /\ \E e \in XEvents :
          /\ e \in {"KEY_PRESS", "SELECTION_NOTIFY"} =>
                Len(sent) + 2 * (Len(xevents) + 1) <= MaxTyped
          /\ xevents' = Append(xevents, e)
    /\ UNCHANGED <<coreVars, histVars, ioVars, dispatch, pc, reached, open, damageVars, pumpVars>>

(* Screen::handleConfigure: resize the Terminal if the size changed.       *)
HandleConfigure(sz) ==
    IF sz = <<rows, cols>>
    THEN UNCHANGED <<coreVars, reached>>
    ELSE /\ \E priAdj \in BufferResizeAdj(sz[1], ResizeRowArgs(M).pri),
               altAdj \in BufferResizeAdj(sz[1], ResizeRowArgs(M).alt) :
               InstallCursor(resize(M, sz[1], sz[2], priAdj, altAdj))
         /\ reached' = Entered("resize")

(* EventLoop::dispatch for the events that do not resize.                  *)
DispatchInput(e) ==
    IF ~open THEN UNCHANGED <<ioVars, reached>>
    ELSE /\ reached' = Entered(TerminalOp(e))
         /\ IF e = "BUTTON_PRESS" THEN UNCHANGED ioVars
            ELSE \E o \in TtyOutcomes(Payload(e)) :
                    LET io == write(IO, Payload(e), o[1], o[2])
                    IN /\ writeBuffer' = io.writeBuffer
                       /\ dumpWrites' = io.dumpWrites
                       /\ ttyOut' = io.ttyOut
                       /\ ttyErr' = io.ttyErr
                       /\ sent' = sent \o Payload(e)

(* EventLoop::xevent, one event: a configure is deferred.                  *)
LoopXEvent ==
    /\ pc = "loop"
    /\ xevents # <<>>
    /\ xevents' = Tail(xevents)
    /\ IF Head(xevents) = "CONFIGURE_NOTIFY"
       THEN /\ \E same \in BOOLEAN : deferred' = (deferred \/ ~same)
            /\ UNCHANGED <<ioVars, reached>>
       ELSE /\ DispatchInput(Head(xevents))
            /\ UNCHANGED deferred
    /\ UNCHANGED <<coreVars, histVars, dispatch, pc, open, damage, dirty, mapped, pumpVars, drawVars>>

(* EventLoop::loop: Screen::deferral once the queue is drained.            *)
LoopDeferral ==
    /\ pc = "loop"
    /\ xevents = <<>>
    /\ deferred
    /\ deferred' = FALSE
    /\ \E sz \in ColumnSizes : HandleConfigure(sz)
    /\ UNCHANGED <<histVars, ioVars, dispatch, pc, xevents, open, damage, dirty, mapped, pumpVars, drawVars>>

ReadBegin ==
    /\ pc = "loop"
    /\ ~deferred
    /\ open
    /\ reached' = Entered("read")
    /\ dispatch' = TRUE
    /\ pc' = "read"
    /\ UNCHANGED <<coreVars, histVars, ioVars, xevents, open, damageVars, pumpVars>>

(* Terminal::processModes, DECCOLM: Screen::resizeToAccommodate waits in  *)
(* windowSync when the window has to change size.                          *)
ReadDECCOLM ==
    /\ pc = "read"
    /\ \E set \in BOOLEAN :
          pc' = IF ColumnMode(set) # <<rows, cols>> THEN "sync" ELSE "read"
    /\ UNCHANGED <<coreVars, histVars, ioVars, dispatch, xevents, reached, open, damageVars, pumpVars>>

(* EventLoop::windowSync, one event: every event is dispatched, deferrals *)
(* are not allowed, and the configure notification ends the wait.          *)
SyncXEvent ==
    /\ pc = "sync"
    /\ xevents # <<>>
    /\ xevents' = Tail(xevents)
    /\ IF Head(xevents) = "CONFIGURE_NOTIFY"
       THEN /\ \E sz \in ColumnSizes : HandleConfigure(sz)
            /\ pc' = "read"
            /\ UNCHANGED ioVars
       ELSE /\ DispatchInput(Head(xevents))
            /\ UNCHANGED <<coreVars, pc>>
    /\ UNCHANGED <<histVars, dispatch, open, damageVars, pumpVars>>

(* Terminal::read returns: the pty is drained, the frame time is over or  *)
(* the child has exited.                                                   *)
ReadEnd ==
    /\ pc = "read"
    /\ \E exited \in BOOLEAN :
          /\ dispatch' = readDispatch(exited)
          /\ open' = (open /\ ~exited)
    /\ pc' = "loop"
    /\ UNCHANGED <<coreVars, histVars, ioVars, xevents, reached, damageVars, pumpVars>>

(* Terminal::needsFlush and Terminal::flush, called from the loop.         *)
LoopFlush ==
    /\ pc = "loop"
    /\ ~deferred
    /\ reached' = Entered("needsFlush")
    /\ IF writeBuffer = <<>> THEN UNCHANGED ioVars
       ELSE \E o \in TtyOutcomes(writeBuffer) :
               LET io == flush(IO, o[1], o[2])
               IN /\ writeBuffer' = io.writeBuffer
                  /\ dumpWrites' = io.dumpWrites
                  /\ ttyOut' = io.ttyOut
                  /\ ttyErr' = io.ttyErr
                  /\ UNCHANGED sent
    /\ UNCHANGED <<coreVars, histVars, dispatch, pc, xevents, open, damageVars, pumpVars>>

NextSync ==
    \/ XArrive
    \/ LoopXEvent
    \/ LoopDeferral
    \/ ReadBegin
    \/ ReadDECCOLM
    \/ SyncXEvent
    \/ ReadEnd
    \/ LoopFlush

SpecSync == InitOut /\ [][NextSync]_vars

(***************************************************************************)
(* C4: the dispatch flag is set exactly while read() is executing (the    *)
(* thread is in read() or in the windowSync() it waits in), it is clear   *)
(* whenever the loop runs, also after a read() that ended because the     *)
(* child exited, and read(), flush() and needsFlush() were never entered  *)
(* while it was set.                                                       *)
(***************************************************************************)
DispatchExactlyInRead ==
    /\ dispatch <=> pc \in {"read", "sync"}
    /\ reached \cap {"read", "flush", "needsFlush"} = {}

(* A read() that waited in windowSync(), was resized there and ended by   *)
(* the exit of the child, is over.                                         *)
DispatchExactlyInReadWitness ==
    /\ pc = "loop"
    /\ ~open
    /\ ~dispatch
    /\ "resize" \in reached

(***************************************************************************)
(* C5: while _dispatch is set, resize is the only operation the front end *)
(* applies to the Terminal.                                                *)
(***************************************************************************)
OnlyResizeWhileDispatching == reached \subseteq {"resize"}

(***************************************************************************)
(* Damage.  Buffer keeps one Damage interval per row; the mutations widen *)
(* it over the cells they change; Terminal::fixDamage has the damage      *)
(* drawn if the observer begins a frame, and resets it after a TTY frame. *)
(***************************************************************************)
damageAddWidensOnEmpty(d, begin_, end_) ==
    IF d.begin = d.end THEN [begin |-> begin_, end |-> end_]
    ELSE [begin |-> IF d.begin < begin_ THEN d.begin ELSE begin_,
          end |-> IF d.end > end_ THEN d.end ELSE end_]

damageAdd(d, begin_, end_) ==
    IF begin_ = end_ THEN d
    ELSE IF d.begin = d.end THEN [begin |-> begin_, end |-> end_]
    ELSE [begin |-> IF d.begin < begin_ THEN d.begin ELSE begin_,
          end |-> IF d.end > end_ THEN d.end ELSE end_]

(* The cells of the active grid that differ between two states.            *)
ChangedCells(m, n) ==
    {p \in (0 .. m.rows - 1) \X (0 .. m.cols - 1) :
        m.cells[m.buffer][p[1]][p[2]] # n.cells[n.buffer][p[1]][p[2]]}

(* The damage after a mutation that took the grid from m to n: each row   *)
(* is widened over the columns that changed in it.                         *)
damageChange(dmg, m, n) ==
    [r \in DOMAIN dmg |->
        LET cs == {p[2] : p \in {q \in ChangedCells(m, n) : q[1] = r}}
        IN IF cs = {} THEN dmg[r]
           ELSE damageAdd(dmg[r],
                          CHOOSE c \in cs : \A x \in cs : c <= x,
                          (CHOOSE c \in cs : \A x \in cs : c >= x) + 1)]

(* Buffer::getDamage over all rows: the cells the damage covers.           *)
getDamage(dmg) ==
    {p \in (DOMAIN dmg) \X (0 .. cols - 1) :
        dmg[p[1]].begin <= p[2] /\ p[2] < dmg[p[1]].end}

terminalFixDamageBegin == ~deferred /\ mapped

(* Terminal::draw: the cells a frame draws.                                *)
draw(dmg, begin, end, damager) ==
    IF damager = "TTY" THEN getDamage(dmg)
    ELSE (begin.row .. end.row - 1) \X (begin.col .. end.col - 1)

(* Terminal::fixDamage: the buffer's damage when it returns.               *)
fixDamageResetsDeclined(dmg, damager, begun) ==
    IF damager = "TTY" THEN [r \in DOMAIN dmg |-> NoDamage] ELSE dmg

fixDamage(dmg, damager, begun) ==
    IF begun /\ damager = "TTY" THEN [r \in DOMAIN dmg |-> NoDamage] ELSE dmg

InitDamaged ==
    /\ InitCore(MaxRows, MaxCols)
    /\ InitHist /\ InitIO /\ InitSync
    /\ damage = [r \in 0 .. MaxRows - 1 |-> NoDamage]
    /\ dirty = {}
    /\ mapped = FALSE
    /\ deferred = FALSE
    /\ styles = <<>>
    /\ runs = <<>>
    /\ InitScreen

(* Terminal::processChar on a printable character; a run writes at most   *)
(* MaxTyped of them.                                                       *)
DamageNormal ==
    /\ typed < MaxTyped
    /\ typed' = typed + 1
    /\ \E ch \in Chars :
          LET n == machineNormal(M, ch)
          IN /\ Install(n)
             /\ cells' = n.cells
             /\ damage' = damageChange(damage, M, n)
             /\ dirty' = dirty \cup ChangedCells(M, n)
    /\ lastOp' = "normal"
    /\ lastArgs' = <<>>
    /\ UNCHANGED <<req, ioVars, syncVars, mapped, deferred, drawVars>>

(* Terminal::fixDamage.  TTY and SCROLL frames span the grid, an exposure *)
(* a rectangle of it, and is only delivered to a current pixmap; promote  *)
(* is whether the TTY frame scrolled the history to the bottom.            *)
FixDamage ==
    \E damager \in {"TTY", "SCROLL", "EXPOSURE"}, promote \in BOOLEAN,
       begin \in (0 .. rows - 1) \X (0 .. cols - 1), end \in (1 .. rows) \X (1 .. cols) :
        LET d == IF damager = "TTY" /\ promote THEN "SCROLL" ELSE damager
            b == IF damager = "EXPOSURE" THEN Pos(begin[1], begin[2]) ELSE Pos(0, 0)
            e == IF damager = "EXPOSURE" THEN Pos(end[1], end[2]) ELSE Pos(rows, cols)
        IN /\ b.row < e.row /\ b.col < e.col
           /\ damager = "EXPOSURE" => terminalFixDamageBegin
           /\ damager # "EXPOSURE" => begin = <<0, 0>> /\ end = <<rows, cols>>
           /\ damager # "TTY" => ~promote
           /\ dirty' = IF terminalFixDamageBegin THEN dirty \ draw(damage, b, e, d) ELSE dirty
           /\ damage' = fixDamage(damage, d, terminalFixDamageBegin)
           /\ lastOp' = IF terminalFixDamageBegin THEN d ELSE "declined"
           /\ lastArgs' = IF terminalFixDamageBegin THEN lastArgs ELSE <<"declined">>
           /\ UNCHANGED <<coreVars, req, typed, ioVars, syncVars, mapped, deferred, drawVars>>

(* Screen::mapNotify and Screen::unmapNotify.                              *)
MapNotify ==
    /\ pc # "read"
    /\ mapped' = ~mapped
    /\ UNCHANGED <<coreVars, histVars, ioVars, syncVars, damage, dirty, deferred, drawVars>>

(* Screen::configureNotify defers a configure; Screen::deferral handles   *)
(* it.  The window has moved, the grid keeps its size.                     *)
ConfigureNotify ==
    /\ deferred' = ~deferred
    /\ UNCHANGED <<coreVars, histVars, ioVars, syncVars, damage, dirty, mapped, drawVars>>

NextDamage ==
    \/ DamageNormal
    \/ FixDamage
    \/ MapNotify
    \/ ConfigureNotify

SpecDamage == InitDamaged /\ [][NextDamage]_vars

(***************************************************************************)
(* C10: damage is reset only after the renderer has consumed it.  A step  *)
(* takes a cell out of the damage only if it is a TTY frame the observer  *)
(* began, a frame the observer declined leaves the damage as it was, and  *)
(* every cell changed since it was last drawn is covered by the damage,   *)
(* so the next TTY frame the observer begins draws it.                     *)
(***************************************************************************)
DamageResetAfterConsumed ==
    [][/\ ~(getDamage(damage) \subseteq getDamage(damage)') =>
             lastOp' = "TTY" /\ terminalFixDamageBegin
       /\ lastOp' = "declined" => damage' = damage
       /\ dirty' \subseteq getDamage(damage)']_vars

(* A TTY frame was declined with cells changed, and the next frame begun  *)
(* has drawn them and reset the damage.                                    *)
DamageResetAfterConsumedWitness ==
    /\ lastOp = "TTY"
    /\ lastArgs = <<"declined">>
    /\ dirty = {}
    /\ getDamage(damage) = {}
    /\ cells[buffer][0][0] # Blank

(***************************************************************************)
(* The read pump, byte by byte.  Terminal::read pulls a chunk from the    *)
(* pty and Terminal::processRead applies its bytes in order; with the     *)
(* sync-tty option Terminal::processChar fixes damage after every         *)
(* character.  A DECCOLM in the chunk waits in EventLoop::windowSync,     *)
(* where the handlers of the X events that arrive run before the rest of  *)
(* the chunk is applied.                                                   *)
(***************************************************************************)
MaxChunk == 2

InitPump ==
    /\ InitCore(MaxRows, MaxCols)
    /\ InitHist /\ InitIO /\ InitDamage
    /\ dispatch = FALSE /\ pc = "loop" /\ xevents = <<>> /\ reached = {} /\ open = TRUE
    /\ syncTty \in BOOLEAN
    /\ pending = 0
    /\ early = FALSE
    /\ exits = <<>>

ExitCodes == {0, 1}

(* Terminal::read, the catch of I_Tty::Exited: the observer is told.      *)
terminalChildExitedNever(ex, exitCode) == ex

terminalChildExited(ex, exitCode) == Append(ex, exitCode)

(* Terminal::fixDamage called with `left` pulled bytes still unapplied.    *)
Frame(issued, left) ==
    early' = (early \/ (issued /\ terminalFixDamageBegin /\ left > 0))

PumpBegin ==
    /\ pc = "loop"
    /\ open
    /\ dispatch' = TRUE
    /\ pc' = "read"
    /\ pending' = 0
    /\ UNCHANGED <<coreVars, histVars, ioVars, xevents, reached, open, syncTty, early, damageVars, exits>>

(* I_Tty::read returns a chunk.                                            *)
PumpPull ==
    /\ pc = "read"
    /\ pending = 0
    /\ \E n \in 1 .. MaxChunk : pending' = n
    /\ UNCHANGED <<coreVars, histVars, ioVars, dispatch, pc, xevents, reached, open, syncTty, early, damageVars, exits>>

(* Terminal::processChar on the next byte of the chunk: a printable       *)
(* character, or the final byte of a DECCOLM request.                      *)
PumpChar ==
    /\ pc = "read"
    /\ pending > 0
    /\ pending' = pending - 1
    /\ \/ /\ LET n == machineNormal(M, "A") IN Install(n) /\ cells' = n.cells
          /\ UNCHANGED pc
       \/ /\ \E set \in BOOLEAN :
                pc' = IF ColumnMode(set) # <<rows, cols>> THEN "sync" ELSE "read"
          /\ UNCHANGED coreVars
    /\ Frame(syncTty /\ pc' = "read", pending')
    /\ UNCHANGED <<histVars, ioVars, dispatch, xevents, reached, open, syncTty, damageVars, exits>>

(* EventLoop::windowSync receives an event.  frame is whether its handler *)
(* fixes damage: Terminal::keyPress and Terminal::paste when they scroll   *)
(* the history to the bottom, Terminal::buttonPress for the left and the  *)
(* right button, and Terminal::processChar on return with sync-tty.  A    *)
(* run has one key press or paste.                                         *)
PumpSync ==
    /\ pc = "sync"
    /\ \E e \in XEvents, frame \in BOOLEAN :
          /\ e \in {"KEY_PRESS", "SELECTION_NOTIFY"} => sent = <<>>
          /\ IF e = "CONFIGURE_NOTIFY"
             THEN /\ \E sz \in ColumnSizes : HandleConfigure(sz)
                  /\ pc' = "read"
                  /\ frame = syncTty
                  /\ UNCHANGED ioVars
             ELSE /\ DispatchInput(e)
                  /\ UNCHANGED <<coreVars, pc>>
          /\ Frame(frame, pending)
    /\ UNCHANGED <<histVars, dispatch, xevents, open, syncTty, pending, damageVars, exits>>

(* Terminal::read returns; without sync-tty it fixes damage first.         *)
PumpEnd ==
    /\ pc = "read"
    /\ pending = 0
    /\ \/ /\ dispatch' = readDispatch(FALSE)
          /\ lastOp' = "read"
          /\ lastArgs' = <<>>
          /\ UNCHANGED <<open, exits>>
       \/ \E exitCode \in ExitCodes :
             /\ exits' = terminalChildExited(exits, exitCode)
             /\ dispatch' = readDispatch(TRUE)
             /\ open' = FALSE
             /\ lastOp' = "Exited"
             /\ lastArgs' = <<exitCode>>
    /\ pc' = "loop"
    /\ Frame(~syncTty, pending)
    /\ UNCHANGED <<coreVars, req, typed, ioVars, xevents, reached, syncTty, pending, damageVars>>

NextPump ==
    \/ PumpBegin
    \/ PumpPull
    \/ PumpChar
    \/ PumpSync
    \/ PumpEnd
    \/ MapNotify

SpecPump == InitPump /\ [][NextPump]_vars

(***************************************************************************)
(* C11: the renderer observes the terminal only between read pumps: no    *)
(* frame is drawn while bytes pulled by the current read() are still      *)
(* unapplied.                                                              *)
(***************************************************************************)
RendererBetweenPumps == ~early

(***************************************************************************)
(* C13: when the tty reports during read() that the child exited, the     *)
(* exit code is handed to the observer's child-exited callback exactly    *)
(* once, the read() pulls nothing more, and it returns with the dispatch  *)
(* flag cleared.                                                           *)
(***************************************************************************)
ChildExitedOnce ==
    /\ Len(exits) <= 1
    /\ lastOp = "Exited" =>
          /\ exits = lastArgs
          /\ ~dispatch
          /\ pc = "loop"
          /\ pending = 0

(* The child exited with status 1 in a read() that had waited in          *)
(* windowSync and was resized there.                                       *)
ChildExitedOnceWitness ==
    /\ lastOp = "Exited"
    /\ exits = <<1>>
    /\ "resize" \in reached
    /\ ~dispatch

(***************************************************************************)
(* Terminal::draw, the runs of one row.  A style is a foreground and a    *)
(* background colour; a run is the column it starts at, the number of     *)
(* cells in it and the style handed to terminalDrawRun.                    *)
(***************************************************************************)
Styles == [fg : {0, 1}, bg : {0, 1}]

(* The loop over the columns c .. end - 1: run holds the run being        *)
(* accumulated, if any (its first column c_ and the local `style`).        *)
RECURSIVE drawRuns(_, _, _, _, _, _)
drawRuns(st, c, end, reverse, out, run) ==
    LET flushed == IF run = <<>> THEN out
                   ELSE Append(out, [col |-> run[1].col, count |-> c - run[1].col,
                                     style |-> run[1].style])
    IN IF c = end THEN flushed
       ELSE IF run = <<>> \/ run[1].style # st[c]
       THEN drawRuns(st, c + 1, end, reverse, flushed,
                     <<[col |-> c,
                        style |-> IF reverse THEN [fg |-> st[c].bg, bg |-> st[c].fg]
                                  ELSE st[c]]>>)
       ELSE drawRuns(st, c + 1, end, reverse, out, run)

InitDraw ==
    /\ InitCore(MaxRows, MaxCols)
    /\ InitHist /\ InitIO /\ InitSync
    /\ damage = <<>> /\ dirty = {} /\ mapped = FALSE /\ deferred = FALSE
    /\ styles \in [0 .. MaxCols - 1 -> Styles]
    /\ runs = <<>>
    /\ InitScreen

(* Terminal::draw over the columns [begin, end) of the row.                *)
DrawRow ==
    /\ \E begin \in 0 .. cols, end \in 0 .. cols :
          /\ begin <= end
          /\ runs' = drawRuns(styles, begin, end, "REVERSE" \in modes, <<>>, <<>>)
          /\ lastArgs' = <<begin, end>>
    /\ lastOp' = "draw"
    /\ UNCHANGED <<coreVars, req, typed, ioVars, syncVars, damage, dirty, mapped, deferred, styles,
                   screenVars, attrVars>>

(* DECSCNM.                                                                *)
DrawDECSCNM ==
    /\ \E set \in BOOLEAN : Install(processMode(M, TRUE, set, 5))
    /\ UNCHANGED <<cells, histVars, ioVars, syncVars, damageVars>>

NextDraw ==
    \/ DrawRow
    \/ DrawDECSCNM

SpecDraw == InitDraw /\ [][NextDraw]_vars

(***************************************************************************)
(* C12: the runs draw() emits for a row are in increasing column order,   *)
(* do not overlap, cover exactly the drawn interval [begin, end), hold    *)
(* cells of one style each, and never split two adjacent cells of equal   *)
(* style, REVERSE set or not.                                              *)
(***************************************************************************)
RunsBatchEqualStyles ==
    lastOp = "draw" =>
        LET begin == lastArgs[1]
            end == lastArgs[2]
            RunEnd(i) == runs[i].col + runs[i].count
        IN /\ \A i \in DOMAIN runs :
                 /\ runs[i].count > 0
                 /\ \A c \in runs[i].col .. RunEnd(i) - 1 : styles[c] = styles[runs[i].col]
           /\ runs # <<>> => runs[1].col = begin /\ RunEnd(Len(runs)) = end
           /\ runs = <<>> => begin = end
           /\ \A i \in 1 .. Len(runs) - 1 :
                 /\ RunEnd(i) = runs[i + 1].col
                 /\ styles[RunEnd(i) - 1] # styles[runs[i + 1].col]

(***************************************************************************)
(* Specification SpecControl: the C0 controls, with the modes and the     *)
(* margins they depend on, and the control that ran recorded.              *)
(***************************************************************************)
CtlChar ==
    /\ \E c \in Controls : InstallWrite(machineControl(M, c), c, <<>>)
    /\ UNCHANGED typed

MaxPrinted == 2

CtlNormal ==
    /\ typed < MaxPrinted
    /\ typed' = typed + 1
    /\ InstallWrite(machineNormal(M, "A"), "normal", <<"A">>)

(* SM / RM: LNM (20) and DECAWM (? 7).                                     *)
CtlMode ==
    /\ \E set \in BOOLEAN, priv \in BOOLEAN :
          InstallWrite(processMode(M, priv, set, IF priv THEN 7 ELSE 20), "mode", <<>>)
    /\ UNCHANGED typed

CtlDECSTBM ==
    /\ \E args \in {<<>>, <<2, rows>>} :
          InstallWrite(DECSTBM(M, args), "DECSTBM", args)
    /\ UNCHANGED typed

NextControl ==
    \/ CtlChar
    \/ CtlNormal
    \/ CtlMode
    \/ CtlDECSTBM

SpecControl == InitMove /\ [][NextControl]_vars

(***************************************************************************)
(* C14: VT and FF are treated as LF: from any state each of the three     *)
(* bytes has the same effect on the cursor and the grid, CR_ON_LF set or  *)
(* not.                                                                    *)
(***************************************************************************)
LineFeedAliases ==
    [][lastOp' \in {"VT", "FF"} =>
          /\ cursor' = machineControl(M, "LF").cursor
          /\ cells' = machineControl(M, "LF").cells]_vars

MaxWideCols == 4

WideSizes == {MaxRows} \X (1 .. MaxWideCols)

(* Buffer::resetTabs.                                                      *)
resetTabs(ncols) == [i \in 0 .. ncols - 1 |-> i % 8 = 0]

InitTabs ==
    /\ \E sz \in WideSizes : InitCore(sz[1], sz[2])
    /\ InitHist /\ InitIO /\ InitSync /\ InitDamage

InstallTabs(m, op, args) ==
    /\ InstallCursor(m)
    /\ lastOp' = op
    /\ lastArgs' = args
    /\ UNCHANGED <<req, typed, ioVars, syncVars, damageVars>>

(* ESC H (HTS) and ESC c (RIS).                                            *)
TabEscape == \E c \in {"H", "c"} : InstallTabs(machineEscape(M, c), c, <<>>)

(* CSI g and CSI 3 g (TBC).                                                *)
TabTBC == \E args \in {<<>>, <<3>>} : InstallTabs(machineCsi(M, FALSE, args, "g"), "g", args)

(* CSI n G (CHA) and CSI n d (VPA) place the cursor.                       *)
TabPlace ==
    \E mode \in {"G", "d"}, n \in 1 .. MaxWideCols :
        InstallTabs(machineCsi(M, FALSE, <<n>>, mode), mode, <<>>)

TabHT == InstallTabs(machineControl(M, "HT"), "HT", <<>>)

(* CSI n I (CHT) and CSI n Z (CBT).                                        *)
TabCsi ==
    \E mode \in {"I", "Z"}, args \in ArgLists1 :
        InstallTabs(machineCsi(M, FALSE, args, mode), mode, args)

TabResize ==
    \E sz \in WideSizes :
        InstallTabs(resize(M, sz[1], sz[2], 0, 0), "resize", <<>>)

NextTabs ==
    \/ TabEscape
    \/ TabTBC
    \/ TabPlace
    \/ TabHT
    \/ TabCsi
    \/ TabResize

SpecTabs == InitTabs /\ [][NextTabs]_vars

(* The set stops strictly right and strictly left of the cursor.           *)
StopsRight == {c \in cursor.col + 1 .. cols - 1 : tabs[c]}
StopsLeft  == {c \in 0 .. cursor.col - 1 : tabs[c]}

NthStopRight(n) ==
    IF n = 0 THEN cursor.col
    ELSE IF Cardinality(StopsRight) < n THEN cols - 1
    ELSE CHOOSE c \in StopsRight : Cardinality({d \in StopsRight : d < c}) = n - 1

NthStopLeft(n) ==
    IF n = 0 THEN cursor.col
    ELSE IF Cardinality(StopsLeft) < n THEN 0
    ELSE CHOOSE c \in StopsLeft : Cardinality({d \in StopsLeft : d > c}) = n - 1

MaxResetCols == 9

ResetSizes == {1} \X (1 .. MaxResetCols)

InitResetTabs ==
    /\ \E sz \in ResetSizes : InitCore(sz[1], sz[2])
    /\ InitHist /\ InitIO /\ InitSync /\ InitDamage

ResetResize ==
    \E sz \in ResetSizes : InstallTabs(resize(M, sz[1], sz[2], 0, 0), "resize", <<>>)

NextResetTabs ==
    \/ TabEscape
    \/ TabHT
    \/ ResetResize

SpecResetTabs == InitResetTabs /\ [][NextResetTabs]_vars

(***************************************************************************)
(* C17: after construction, after ESC c and after a resize, column c      *)
(* holds a tab stop if and only if c % 8 = 0, which are the columns       *)
(* Buffer::resetTabs names.                                                *)
(***************************************************************************)
ResetTabsEveryEighth ==
    lastOp \in {"init", "c", "resize"} =>
        /\ \A c \in 0 .. cols - 1 : tabs[c] <=> c % 8 = 0
        /\ tabs = resetTabs(cols)

(***************************************************************************)
(* Specification SpecPosition: CUP and HVP under the origin mode and the  *)
(* margins, with the sequence and its arguments recorded.                  *)
(***************************************************************************)
PositionCsi ==
    /\ \E mode \in {"f", "H"}, args \in ArgLists2 :
          /\ InstallCursor(machineCsi(M, FALSE, args, mode))
          /\ req' = CsiMovePos(M, args, mode)
          /\ lastArgs' = args
          /\ lastOp' = mode
    /\ UNCHANGED <<typed, ioVars, syncVars, damageVars>>

NextPosition ==
    \/ PositionCsi
    \/ MoveNormal
    \/ MoveDECOM
    \/ MoveDECSTBM

SpecPosition == InitMove /\ [][NextPosition]_vars

(* The n-th argument as the 1-indexed coordinate the claim gives it:      *)
(* absent or zero is 1.                                                    *)
OneIndexed(args, n) == IF n < Len(args) /\ args[n + 1] # 0 THEN args[n + 1] ELSE 1

Lesser(a, b) == IF a < b THEN a ELSE b

LegacyLimit == 223

Buttons == {"LEFT", "MIDDLE", "RIGHT"}

(* static_cast<int>(button)                                                *)
ButtonNum(b) == CASE b = "LEFT" -> 0 [] b = "MIDDLE" -> 1 [] b = "RIGHT" -> 2

ModifierBits(modifiers, shift, alt, control) ==
    (IF "SHIFT" \in modifiers THEN shift ELSE 0)
      + (IF "ALT" \in modifiers THEN alt ELSE 0)
      + (IF "CONTROL" \in modifiers THEN control ELSE 0)

(* char(n) on the wire: the digits are the characters Dec writes.          *)
Chr(n) ==
    LET v == n % 256
    IN IF v \in 48 .. 57 THEN Digits[v - 47] ELSE "chr" \o ToString(v)

MouseReportOffByOne(modeSet, num, pos, final) ==
    IF "MOUSE_SGR" \in modeSet
    THEN <<"ESC", "[", "<">> \o Dec(num) \o <<";">> \o Dec(pos.col + 1)
            \o <<";">> \o Dec(pos.row + 1) \o <<final>>
    ELSE IF pos.row <= LegacyLimit /\ pos.col <= LegacyLimit
    THEN <<"ESC", "[", "M", Chr(32 + num), Chr(32 + pos.col + 1), Chr(32 + pos.row + 1)>>
    ELSE <<>>

(* The string the three handlers build in ost.                             *)
MouseReport(modeSet, num, pos, final) ==
    IF "MOUSE_SGR" \in modeSet
    THEN <<"ESC", "[", "<">> \o Dec(num) \o <<";">> \o Dec(pos.col + 1)
            \o <<";">> \o Dec(pos.row + 1) \o <<final>>
    ELSE IF pos.row < LegacyLimit /\ pos.col < LegacyLimit
    THEN <<"ESC", "[", "M", Chr(32 + num), Chr(32 + pos.col + 1), Chr(32 + pos.row + 1)>>
    ELSE <<>>

buttonPress(m, b, modifiers, pos) ==
    IF "MOUSE_BUTTON" \in m.modes
    THEN LET num == IF ButtonNum(b) >= 3 THEN ButtonNum(b) + 64 - 3 ELSE ButtonNum(b)
         IN MouseReport(m.modes, num + ModifierBits(modifiers, 4, 8, 16), pos, "M")
    ELSE <<>>

buttonMotion(m, b, modifiers, within, pos) ==
    IF "MOUSE_MOTION" \in m.modes /\ within
    THEN MouseReport(m.modes, ButtonNum(b) + 32 + ModifierBits(modifiers, 1, 2, 4), pos, "M")
    ELSE <<>>

buttonRelease(m, b, modifiers, pos) ==
    IF "MOUSE_BUTTON" \in m.modes
    THEN LET num == IF "MOUSE_SGR" \in m.modes THEN ButtonNum(b) + 32 ELSE 3
         IN MouseReport(m.modes, num + ModifierBits(modifiers, 4, 8, 16), pos, "m")
    ELSE <<>>

(***************************************************************************)
(* Specification SpecMouse: the pointer on a grid of one column or one    *)
(* row long enough to pass the limit of the legacy report.                 *)
(***************************************************************************)
MaxPointer == 224

MouseSizes == {<<MaxPointer, 1>>, <<1, MaxPointer>>}

ModifierSets == {{}, {"SHIFT", "ALT", "CONTROL"}}

(* Screen::xy2Pos gives a row of 0 .. rows - 1 and a column of 0 .. cols;  *)
(* the model takes the first ones and the ones next to the limit.          *)
PointerCoords(n) == {0} \cup {c \in 0 .. n : c + 1 >= LegacyLimit}

PointerPositions ==
    {Pos(r, c) : r \in PointerCoords(rows - 1), c \in PointerCoords(cols)}

InitMouse ==
    /\ \E sz \in MouseSizes : InitCore(sz[1], sz[2])
    /\ InitHist /\ InitIO /\ InitSync /\ InitDamage

(* CSI ? 1000 / 1002 / 1006 h and l.                                       *)
MouseMode ==
    /\ \E set \in BOOLEAN, a \in {1000, 1002, 1006} :
          InstallWrite(processMode(M, TRUE, set, a), "mode", <<>>)
    /\ UNCHANGED typed

(* What a handler that built str leaves: the string written to the tty,   *)
(* which takes it whole, and, where the handler changed the selection, a  *)
(* SCROLL frame.  A run is followed up to its first report and through    *)
(* the silent events after it.                                             *)
InstallMouse(str, op, pos, frame) ==
    /\ str # <<>> => sent = <<>>
    /\ LET io == IF str # <<>> THEN write(IO, str, Len(str), FALSE) ELSE IO
       IN /\ writeBuffer' = io.writeBuffer
          /\ dumpWrites' = io.dumpWrites
          /\ ttyOut' = io.ttyOut
          /\ ttyErr' = io.ttyErr
    /\ sent' = sent \o str
    /\ damage' = IF frame THEN fixDamage(damage, "SCROLL", terminalFixDamageBegin) ELSE damage
    /\ lastOp' = op
    /\ lastArgs' = str
    /\ req' = pos
    /\ UNCHANGED <<rows, cols, cursor, savedCursor, modes, buffer, margins, tabs, cells>>
    /\ UNCHANGED <<typed, syncVars, dirty, mapped, deferred, drawVars>>
    /\ UNCHANGED <<searchVars, hexVars, lineVars, dedupVars, reflowVars, rowVars, matchVars,
                   pointerVars>>

ButtonPress ==
    /\ ~pressed
    /\ \E b \in Buttons, modifiers \in ModifierSets, pos \in PointerPositions :
          /\ InstallMouse(buttonPress(M, b, modifiers, pos), "buttonPress", pos,
                          "MOUSE_BUTTON" \notin modes /\ b \in {"LEFT", "RIGHT"})
          /\ pressed' = TRUE
          /\ button' = b
          /\ pointerPos' = pos
    /\ UNCHANGED selVars

ButtonMotion ==
    /\ pressed
    /\ \E modifiers \in ModifierSets, within \in BOOLEAN, pos \in PointerPositions :
          /\ pos.col = cols => ~within
          /\ InstallMouse(buttonMotion(M, button, modifiers, within, pos),
                          IF within THEN "buttonMotion" ELSE "buttonMotionOutside", pos,
                          modes \cap {"MOUSE_MOTION", "MOUSE_BUTTON"} = {} /\ button = "LEFT")
          /\ pointerPos' = pos
          /\ UNCHANGED <<pressed, button, selVars>>

ButtonRelease ==
    /\ pressed
    /\ \E modifiers \in ModifierSets :
          InstallMouse(buttonRelease(M, button, modifiers, pointerPos), "buttonRelease",
                       pointerPos, FALSE)
    /\ pressed' = FALSE
    /\ UNCHANGED <<button, pointerPos, selVars>>

NextMouse ==
    \/ MouseMode
    \/ ButtonPress
    \/ ButtonMotion
    \/ ButtonRelease

SpecMouse == InitMouse /\ [][NextMouse]_vars

(* The handler of the last step reports: mouse reporting is on for it.     *)
MouseReporting ==
    \/ lastOp \in {"buttonPress", "buttonRelease"} /\ "MOUSE_BUTTON" \in modes
    \/ lastOp = "buttonMotion" /\ "MOUSE_MOTION" \in modes

Written(str) ==
    /\ Len(str) <= Len(sent)
    /\ SubSeq(sent, Len(sent) - Len(str) + 1, Len(sent)) = str

(***************************************************************************)
(* C19: a press, a motion or a release that is reported in the legacy     *)
(* form writes ESC [ M and three bytes, the last two 32 + x and 32 + y,   *)
(* when neither x = col + 1 nor y = row + 1 exceeds 223, and both bytes   *)
(* are at most 255; it writes nothing when one of them exceeds 223; with  *)
(* MOUSE_SGR set it writes ESC [ < b ; x ; y M, or m for a release, at    *)
(* every position.                                                         *)
(***************************************************************************)
MouseReportFits ==
    MouseReporting =>
        LET x == req.col + 1
            y == req.row + 1
        IN /\ Written(lastArgs)
           /\ IF "MOUSE_SGR" \in modes
              THEN \E b \in 0 .. 127 :
                      lastArgs = <<"ESC", "[", "<">> \o Dec(b) \o <<";">> \o Dec(x)
                                   \o <<";">> \o Dec(y)
                                   \o <<IF lastOp = "buttonRelease" THEN "m" ELSE "M">>
              ELSE IF x <= 223 /\ y <= 223
              THEN /\ Len(lastArgs) = 6
                   /\ SubSeq(lastArgs, 1, 3) = <<"ESC", "[", "M">>
                   /\ lastArgs[5] = Chr(32 + x) /\ 32 + x <= 255
                   /\ lastArgs[6] = Chr(32 + y) /\ 32 + y <= 255
              ELSE lastArgs = <<>>

(* A legacy release report at the last row that can be reported, y = 223. *)
MouseReportFitsWitness ==
    /\ lastOp = "buttonRelease"
    /\ "MOUSE_BUTTON" \in modes
    /\ "MOUSE_SGR" \notin modes
    /\ req.row = 222
    /\ lastArgs = <<"ESC", "[", "M", Chr(63), Chr(33), Chr(255)>>

(***************************************************************************)
(* Specification SpecSave: ESC 7 and ESC 8 around cursor movements,       *)
(* printable output, SGR, origin-mode changes, G0 designations and        *)
(* shifts.  lastArgs holds the cursor as it was at the last ESC 7, and    *)
(* nothing once CSI s has saved over it.  The cells are kept blank.        *)
(***************************************************************************)
InstallSave(m, op, args) ==
    /\ InstallCursor(m)
    /\ lastOp' = op
    /\ lastArgs' = args
    /\ UNCHANGED <<req, typed, ioVars, syncVars, damageVars>>

SaveDECSC == InstallSave(machineEscape(M, "7"), "7", <<cursor>>)

SaveDECRC == InstallSave(machineEscape(M, "8"), "8", lastArgs)

SaveCsiS == InstallSave(machineCsi(M, FALSE, <<>>, "s"), "s", <<>>)

SaveMove ==
    \E mode \in {"H", "C", "B", "u"} :
        InstallSave(machineCsi(M, FALSE, <<>>, mode), "other", lastArgs)

SaveNormal == InstallSave(machineNormal(M, "A"), "other", lastArgs)

SaveSGR ==
    \E v \in {0, 1} : InstallSave(processAttributes(M, <<v>>), "other", lastArgs)

SaveDECOM ==
    \E set \in BOOLEAN : InstallSave(processMode(M, TRUE, set, 6), "other", lastArgs)

SaveCharset ==
    \/ \E code \in {"0", "B"} :
          InstallSave(machineSpecial(M, "(", code), "other", lastArgs)
    \/ \E c \in {"SO", "SI"} : InstallSave(machineControl(M, c), "other", lastArgs)

NextSave ==
    \/ SaveDECSC
    \/ SaveDECRC
    \/ SaveCsiS
    \/ SaveMove
    \/ SaveNormal
    \/ SaveSGR
    \/ SaveDECOM
    \/ SaveCharset

SpecSave == Init /\ [][NextSave]_vars

(***************************************************************************)
(* C20: ESC 8 after an ESC 7, with cursor movements, printable output,    *)
(* SGR, origin-mode changes, designations and shifts in between but no    *)
(* other save and no resize, restores the cursor position, wrap_next,     *)
(* style, origin mode and charset selection to their values at the ESC 7. *)
(***************************************************************************)
SaveRestoreRoundTrip ==
    (lastOp = "8" /\ lastArgs # <<>>) =>
        LET at == lastArgs[1]
        IN /\ cursor.row = at.row /\ cursor.col = at.col
           /\ cursor.wrapNext = at.wrapNext
           /\ cursor.style = at.style
           /\ cursor.originMode = at.originMode
           /\ cursor.cs = at.cs /\ cursor.g0 = at.g0 /\ cursor.g1 = at.g1

(* ESC 8 brought back a pending wrap in the last column of the lower row, *)
(* bold, in origin mode, shifted to G1 with G0 designated special, after  *)
(* every one of them had been changed.                                     *)
SaveRestoreRoundTripWitness ==
    /\ lastOp = "8"
    /\ lastArgs # <<>>
    /\ cursor = [row |-> 1, col |-> 1, wrapNext |-> TRUE, originMode |-> TRUE,
                 style |-> [bold |-> TRUE, fg |-> "normal"], cs |-> "g1", g0 |-> "CS_SPECIAL",
                 g1 |-> "CS_US"]

(***************************************************************************)
(* Specification SpecAlt: the switch between the primary and the          *)
(* alternate buffer around printable output, cursor movements and ESC 7.  *)
(* lastArgs holds the primary grid as it was at the last CSI ? 1047 h or  *)
(* CSI ? 1049 h and, after it, the cursor as it was at the last           *)
(* CSI ? 1049 h.                                                           *)
(***************************************************************************)
(* The record of the stay in the alternate buffer, none outside of one.    *)
AltStay == IF buffer = "alt" THEN lastArgs ELSE <<>>

AltModeName(a, set) ==
    CASE a = 1047 /\ set -> "1047h" [] a = 1047 /\ ~set -> "1047l"
      [] a = 1049 /\ set -> "1049h" [] a = 1049 /\ ~set -> "1049l"

AltSwitch ==
    /\ \E a \in {1047, 1049}, set \in BOOLEAN :
          InstallWrite(processMode(M, TRUE, set, a), AltModeName(a, set),
                       IF ~set THEN AltStay
                       ELSE IF a = 1049 THEN <<cells.pri, cursor>>
                       ELSE IF AltStay = <<>> THEN <<cells.pri>>
                       ELSE <<cells.pri>> \o Tail(AltStay))
    /\ UNCHANGED typed

AltNormal ==
    /\ typed < MaxPrinted
    /\ typed' = typed + 1
    /\ InstallWrite(machineNormal(M, "A"), "normal", AltStay)

AltDECSC ==
    /\ InstallWrite(machineEscape(M, "7"), "7", AltStay)
    /\ UNCHANGED typed

AltMove ==
    /\ \E args \in {<<>>, <<2, 2>>} :
          InstallWrite(machineCsi(M, FALSE, args, "H"), "H", AltStay)
    /\ UNCHANGED typed

NextAlt ==
    \/ AltSwitch
    \/ AltNormal
    \/ AltDECSC
    \/ AltMove

SpecAlt == InitOut /\ [][NextAlt]_vars

(***************************************************************************)
(* C21: CSI ? 1047 h and CSI ? 1049 h make the alternate buffer active,   *)
(* CSI ? 1047 l and CSI ? 1049 l the primary one; while the alternate     *)
(* buffer is active the primary grid stays as it was at the switch, and   *)
(* CSI ? 1049 l restores the cursor that CSI ? 1049 h saved.               *)
(***************************************************************************)
AlternateBufferRoundTrip ==
    /\ lastOp \in {"1047h", "1049h"} => buffer = "alt"
    /\ lastOp \in {"1047l", "1049l"} => buffer = "pri"
    /\ (buffer = "alt" /\ lastArgs # <<>>) => cells.pri = lastArgs[1]
    /\ (lastOp \in {"1047l", "1049l"} /\ lastArgs # <<>>) => cells.pri = lastArgs[1]
    /\ (lastOp = "1049l" /\ Len(lastArgs) = 2) => cursor = lastArgs[2]

(***************************************************************************)
(* Specification SpecReset: ESC c after output, mode changes, SGR,        *)
(* margins and a buffer switch.                                            *)
(***************************************************************************)
ResetRIS ==
    /\ InstallWrite(machineEscape(M, "c"), "c", <<>>)
    /\ UNCHANGED typed

ResetSGR ==
    /\ InstallWrite(processAttributes(M, <<1>>), "m", <<1>>)
    /\ UNCHANGED typed

ResetBuffer ==
    /\ \E set \in BOOLEAN : InstallWrite(processMode(M, TRUE, set, 1047), "mode", <<>>)
    /\ UNCHANGED typed

NextReset ==
    \/ ResetRIS
    \/ ResetSGR
    \/ ResetBuffer
    \/ CtlNormal
    \/ CtlMode
    \/ CtlDECSTBM

SpecReset == InitMove /\ [][NextReset]_vars

(***************************************************************************)
(* C22: after ESC c the modes are the construction-time defaults, the     *)
(* cursor and the saved cursor are the initial ones, the tab stops are    *)
(* the construction-time ones, the visible grid is blank, the margins     *)
(* span the screen and the primary buffer is the active one.               *)
(***************************************************************************)
FullResetInitial ==
    lastOp = "c" =>
        /\ modes = DefaultModes
        /\ cursor = NewCursor
        /\ savedCursor = NewCursor
        /\ tabs = NewTabs(cols)
        /\ cells[buffer] = NewGrid(rows, cols)
        /\ margins[buffer] = NewMargins(rows)
        /\ buffer = "pri"

(***************************************************************************)
(* Specification SpecIndex: IND, NEL, RI and LF on tall screens, with     *)
(* margins, origin mode, cursor placement and output.                      *)
(***************************************************************************)
IndexEscape ==
    /\ \E c \in {"D", "E", "M"} : InstallWrite(machineEscape(M, c), c, <<>>)
    /\ UNCHANGED typed

IndexLF ==
    /\ InstallWrite(machineControl(M, "LF"), "LF", <<>>)
    /\ UNCHANGED typed

IndexDECSTBM ==
    /\ \E args \in {<<>>, <<2, rows>>, <<1, 2>>} :
          InstallWrite(DECSTBM(M, args), "DECSTBM", args)
    /\ UNCHANGED typed

IndexPlace ==
    /\ \E r \in 1 .. rows :
          InstallWrite(machineCsi(M, FALSE, <<r>>, "H"), "H", <<>>)
    /\ UNCHANGED typed

IndexDECOM ==
    /\ \E set \in BOOLEAN : InstallWrite(processMode(M, TRUE, set, 6), "mode", <<>>)
    /\ UNCHANGED typed

NextIndex ==
    \/ IndexEscape
    \/ IndexLF
    \/ IndexDECSTBM
    \/ IndexPlace
    \/ IndexDECOM
    \/ CtlNormal

SpecIndex == InitMove /\ [][NextIndex]_vars

IndexGrid == cells[buffer]

(* The margin area of the grid moved up by one line in the step.          *)
MarginAreaUp ==
    \A r \in 0 .. rows - 1 :
        cells'[buffer][r] =
            IF r < margins[buffer].begin \/ r >= margins[buffer].end THEN IndexGrid[r]
            ELSE IF r = margins[buffer].end - 1 THEN [c \in 0 .. cols - 1 |-> Blank]
            ELSE IndexGrid[r + 1]

(* The margin area of the grid moved down by one line in the step.        *)
MarginAreaDown ==
    \A r \in 0 .. rows - 1 :
        cells'[buffer][r] =
            IF r < margins[buffer].begin \/ r >= margins[buffer].end THEN IndexGrid[r]
            ELSE IF r = margins[buffer].begin THEN [c \in 0 .. cols - 1 |-> Blank]
            ELSE IndexGrid[r - 1]

(* The rows the cursor may occupy: the margin area in origin mode, the    *)
(* screen otherwise.                                                       *)
FirstCursorRow == IF cursor.originMode THEN margins[buffer].begin ELSE 0

LastCursorRow == IF cursor.originMode THEN margins[buffer].end - 1 ELSE rows - 1

IndexDown(limited) ==
    lastOp' \in {"D", "E", "LF"} =>
        /\ IF cursor.row = margins[buffer].end - 1
           THEN MarginAreaUp /\ cursor'.row = cursor.row
           ELSE /\ cells' = cells
                /\ cursor'.row = IF limited /\ cursor.row >= LastCursorRow
                                 THEN LastCursorRow ELSE cursor.row + 1
        /\ lastOp' = "E" => cursor'.col = 0

IndexUp(limited) ==
    lastOp' = "M" =>
        IF cursor.row = margins[buffer].begin
        THEN MarginAreaDown /\ cursor'.row = cursor.row
        ELSE /\ cells' = cells
             /\ cursor'.row = IF limited /\ cursor.row <= FirstCursorRow
                              THEN FirstCursorRow ELSE cursor.row - 1

LinesCsi ==
    /\ \E mode \in {"L", "M"}, args \in ArgLists1 :
          InstallWrite(machineCsi(M, FALSE, args, mode), mode, args)
    /\ UNCHANGED typed

LinesNormal ==
    /\ typed < MaxPrinted
    /\ typed' = typed + 1
    /\ \E ch \in Chars : InstallWrite(machineNormal(M, ch), "normal", <<ch>>)

NextLines ==
    \/ LinesCsi
    \/ LinesNormal
    \/ IndexDECSTBM
    \/ IndexPlace

SpecLines == InitMove /\ [][NextLines]_vars

LinesRequested == IF lastArgs' = <<>> \/ lastArgs'[1] = 0 THEN 1 ELSE lastArgs'[1]

LinesCount == Lesser(LinesRequested, margins[buffer].end - cursor.row)

LinesInside == cursor.row >= margins[buffer].begin /\ cursor.row < margins[buffer].end

BlankRow == [c \in 0 .. cols - 1 |-> Blank]

(***************************************************************************)
(* C24: IL and DL change nothing when the cursor row is outside the       *)
(* margins; inside they insert or delete min(n, margin_end - cursor.row)  *)
(* lines (n = 1 when zero or absent) at the cursor row, modify no row     *)
(* outside the margin area and leave the cursor position unchanged.       *)
(***************************************************************************)
InsertDeleteLinesInMargins ==
    [][lastOp' \in {"L", "M"} =>
          /\ cursor'.row = cursor.row /\ cursor'.col = cursor.col
          /\ ~LinesInside => cells' = cells
          /\ \A r \in 0 .. rows - 1 :
                (r < margins[buffer].begin \/ r >= margins[buffer].end)
                    => cells'[buffer][r] = cells[buffer][r]
          /\ LinesInside =>
                \A r \in 0 .. rows - 1 :
                    cells'[buffer][r] =
                        IF r < cursor.row \/ r >= margins[buffer].end
                        THEN cells[buffer][r]
                        ELSE IF lastOp' = "L"
                        THEN (IF r < cursor.row + LinesCount THEN BlankRow
                              ELSE cells[buffer][r - LinesCount])
                        ELSE (IF r + LinesCount < margins[buffer].end
                              THEN cells[buffer][r + LinesCount]
                              ELSE BlankRow)]_vars

InsertDeleteLinesInMarginsWitness ==
    /\ lastOp = "L"
    /\ margins[buffer].end < rows
    /\ cursor.row < margins[buffer].end
    /\ Len(lastArgs) = 1
    /\ lastArgs[1] > margins[buffer].end - cursor.row
    /\ cells[buffer][rows - 1] # BlankRow

(***************************************************************************)
(* Specification SpecErase: ECH on wide screens after SGR, output and     *)
(* cursor placement.                                                       *)
(***************************************************************************)
(* typed counts the characters written and the ECH sequences.             *)
EraseECH ==
    /\ typed < MaxTyped
    /\ typed' = typed + 1
    /\ \E args \in {<<>>, <<0>>, <<2>>, <<cols + 1>>} :
          InstallWrite(machineCsi(M, FALSE, args, "X"), "X", args)

EraseNormal ==
    /\ typed < MaxTyped
    /\ typed' = typed + 1
    /\ InstallWrite(machineNormal(M, "A"), "normal", <<"A">>)

EraseSGR ==
    /\ \E args \in {<<>>, <<31>>} :
          InstallWrite(machineCsi(M, FALSE, args, "m"), "m", args)
    /\ UNCHANGED typed

ErasePlace ==
    /\ \E r \in 1 .. rows :
          InstallWrite(machineCsi(M, FALSE, <<r>>, "H"), "H", <<>>)
    /\ UNCHANGED typed

NextErase ==
    \/ EraseECH
    \/ EraseSGR
    \/ ErasePlace
    \/ EraseNormal

SpecErase == InitTabs /\ [][NextErase]_vars

EraseRequested == IF lastArgs' = <<>> \/ lastArgs'[1] = 0 THEN 1 ELSE lastArgs'[1]

(* ESC [ 31 m A B C ESC [ 2 X on a fresh 24x80 terminal.                  *)
EraseExample ==
    LET red == [StyleNormal EXCEPT !.fg = Palette(1)]
        m1  == machineCsi(NewTerminal(24, 80), FALSE, <<31>>, "m")
        m2  == machineNormal(machineNormal(machineNormal(m1, "A"), "B"), "C")
        m3  == machineCsi(m2, FALSE, <<2>>, "X")
    IN /\ m3.cells.pri[0][0] = Cell("A", red)
       /\ m3.cells.pri[0][1] = Cell("B", red)
       /\ m3.cells.pri[0][2] = Cell("C", red)
       /\ m3.cells.pri[0][3] = Cell(" ", red)
       /\ m3.cells.pri[0][4] = Cell(" ", red)
       /\ m3.cells.pri[0][5] = Blank
       /\ m3.cursor.row = 0 /\ m3.cursor.col = 3

MaxPattern == 3

PatternChars == {"a", "(", ")"}

Patterns == UNION {[1 .. n -> PatternChars] : n \in 0 .. MaxPattern}

RECURSIVE Balanced(_, _)
Balanced(pattern, depth) ==
    IF pattern = <<>> THEN depth = 0
    ELSE CASE Head(pattern) = "(" -> Balanced(Tail(pattern), depth + 1)
           [] Head(pattern) = ")" -> depth > 0 /\ Balanced(Tail(pattern), depth - 1)
           [] OTHER -> Balanced(Tail(pattern), depth)

(* The pcre, none (nullptr) on a compile error.                            *)
pcre_compile(pattern) == IF Balanced(pattern, 0) THEN <<[compiled |-> pattern]>> ELSE <<>>

(* Regex::Regex: the object constructed, or the Error thrown.              *)
RegexKeepsNullPcre(pattern) ==
    [error |-> FALSE, regex |-> <<[pcre |-> pcre_compile(pattern)]>>]

Regex(pattern) ==
    LET pcre == pcre_compile(pattern)
    IN IF pcre = <<>> THEN [error |-> TRUE, regex |-> <<>>]
       ELSE [error |-> FALSE, regex |-> <<[pcre |-> pcre]>>]

(* Buffer::beginSearch: the pattern is compiled, then the search entered.  *)
beginSearch(pattern) ==
    LET r == Regex(pattern)
    IN IF r.error THEN [error |-> TRUE, search |-> search]
       ELSE [error |-> FALSE, search |-> <<[pattern |-> pattern, allOffsets |-> <<>>]>>]

isSearching == search # <<>>

(***************************************************************************)
(* Specification SpecSearch: Regex constructions and the begin and end    *)
(* of searches with valid and invalid patterns.                            *)
(***************************************************************************)
InstallSearch(op, pattern) ==
    /\ lastOp' = op
    /\ lastArgs' = pattern
    /\ UNCHANGED <<rows, cols, cursor, savedCursor, modes, buffer, margins, tabs, cells,
                   mouseVars, extVars, hexVars, lineVars, dedupVars, reflowVars, req,
                   typed, ioVars, syncVars, damageVars>>

SearchRegex ==
    \E pattern \in Patterns :
        LET r == Regex(pattern)
        IN /\ regex' = r.regex
           /\ InstallSearch(IF r.error THEN "Regex::Error" ELSE "Regex", pattern)
           /\ UNCHANGED search

SearchBegin ==
    /\ ~isSearching
    /\ \E pattern \in Patterns :
          LET b == beginSearch(pattern)
          IN /\ search' = b.search
             /\ InstallSearch(IF b.error THEN "beginSearch, Regex::Error"
                               ELSE "beginSearch", pattern)
             /\ UNCHANGED regex

SearchEnd ==
    /\ isSearching
    /\ search' = <<>>
    /\ InstallSearch("endSearch", <<>>)
    /\ UNCHANGED regex

NextSearch ==
    \/ SearchRegex
    \/ SearchBegin
    \/ SearchEnd

SpecSearch == InitOut /\ [][NextSearch]_vars

ByteMax == 255

HexDigits == <<"0", "1", "2", "3", "4", "5", "6", "7", "8", "9", "A", "B", "C", "D", "E", "F">>

byteToHex(byte) == <<HexDigits[(byte \div 16) + 1], HexDigits[(byte % 16) + 1]>>

hexToByte(hex0, hex1) ==
    LET nibble(hex) == (CHOOSE i \in 1 .. Len(HexDigits) : HexDigits[i] = hex) - 1
    IN (nibble(hex0) * 16 + nibble(hex1)) % (ByteMax + 1)

(* test(num, ascii) up to its two ENFORCEs, the digits handed to          *)
(* hexToByte being those of num.                                           *)
testSwapsDigits(byte) ==
    LET ascii == byteToHex(byte)
    IN [num |-> byte, tmpAscii |-> ascii, tmpNum |-> hexToByte(ascii[2], ascii[1])]

test(byte) ==
    LET ascii == byteToHex(byte)
    IN [num |-> byte, tmpAscii |-> ascii, tmpNum |-> hexToByte(ascii[1], ascii[2])]

(***************************************************************************)
(* Specification SpecHex: test() on every byte.                            *)
(***************************************************************************)
HexTest ==
    /\ \E byte \in 0 .. ByteMax :
          LET t == test(byte)
          IN /\ hexNum' = t.num
             /\ tmpAscii' = t.tmpAscii
             /\ tmpNum' = t.tmpNum
    /\ lastOp' = "test"
    /\ UNCHANGED <<rows, cols, cursor, savedCursor, modes, buffer, margins, tabs, cells,
                   mouseVars, extVars, searchVars, lineVars, dedupVars, reflowVars, req,
                   lastArgs, typed, ioVars, syncVars,
                   damageVars>>

NextHex == HexTest

SpecHex == InitOut /\ [][NextHex]_vars

MaxLineCols == 3

(* std::vector::resize(n, fill).                                           *)
VectorResize(v, n, fill) == [i \in 1 .. n |-> IF i <= Len(v) THEN v[i] ELSE fill]

ALine(ncols, style) ==
    [cells |-> [i \in 1 .. ncols |-> Cell(" ", style)], cont |-> FALSE, wrap |-> 0]

ALineOf(cells_, cont_, wrap_, ncols) ==
    [cells |-> VectorResize(cells_, ncols, Blank), cont |-> cont_, wrap |-> wrap_]

ALineResizeKeepsWrap(line, ncols) ==
    [cells |-> VectorResize(line.cells, ncols, Blank), cont |-> FALSE, wrap |-> line.wrap]

ALineResize(line, ncols) ==
    [cells |-> VectorResize(line.cells, ncols, Blank),
     cont  |-> FALSE,
     wrap  |-> IF line.wrap < ncols THEN line.wrap ELSE ncols]

ALineClear(line, style) ==
    [cells |-> [i \in 1 .. Len(line.cells) |-> Cell(" ", style)], cont |-> FALSE, wrap |-> 0]

(***************************************************************************)
(* Specification SpecLine: the constructors, resize and clear of an ALine.*)
(***************************************************************************)
LineCols == 1 .. MaxLineCols

LineStyles == {StyleNormal, [StyleNormal EXCEPT !.fg = Palette(1)]}

LineVectors == UNION {[1 .. n -> {Blank, Cell("A", StyleNormal)}] : n \in 0 .. MaxLineCols}

InstallLine(line, op, args) ==
    /\ aline' = line
    /\ lastOp' = op
    /\ lastArgs' = args
    /\ UNCHANGED <<rows, cols, cursor, savedCursor, modes, buffer, margins, tabs, cells,
                   mouseVars, extVars, searchVars, hexVars, dedupVars, reflowVars, req, typed, ioVars,
                   syncVars,
                   damageVars>>

LineNew ==
    \E ncols \in LineCols, style \in LineStyles :
        InstallLine(ALine(ncols, style), "ALine", <<ncols>>)

(* The second constructor asserts wrap_ <= cols.                           *)
LineOf ==
    \E ncols \in LineCols, cells_ \in LineVectors, cont_ \in BOOLEAN :
        \E wrap_ \in 0 .. ncols :
            InstallLine(ALineOf(cells_, cont_, wrap_, ncols), "ALine", <<ncols>>)

LineResize ==
    \E ncols \in LineCols : InstallLine(ALineResize(aline, ncols), "resize", <<ncols>>)

LineClear ==
    \E style \in LineStyles : InstallLine(ALineClear(aline, style), "clear", <<style>>)

NextLine ==
    \/ LineNew
    \/ LineOf
    \/ LineResize
    \/ LineClear

SpecLine == InitOut /\ [][NextLine]_vars

(***************************************************************************)
(* C30: an ALine that a constructor or resize(cols) produced holds        *)
(* exactly cols cells and has 0 <= wrap <= cols; resize keeps the cells   *)
(* that fit and pads with blanks, lowers wrap to min(wrap, cols) and      *)
(* clears the continuation flag; clear blanks every cell, sets wrap to 0  *)
(* and clears the continuation flag and keeps the length.                  *)
(***************************************************************************)
ALineShape ==
    [][/\ lastOp' \in {"ALine", "resize"} =>
              /\ Len(aline'.cells) = lastArgs'[1]
              /\ 0 <= aline'.wrap /\ aline'.wrap <= lastArgs'[1]
       /\ lastOp' = "resize" =>
              /\ \A i \in 1 .. lastArgs'[1] :
                    aline'.cells[i] = IF i <= Len(aline.cells) THEN aline.cells[i] ELSE Blank
              /\ aline'.wrap = Lesser(aline.wrap, lastArgs'[1])
              /\ ~aline'.cont
       /\ lastOp' = "clear" =>
              /\ Len(aline'.cells) = Len(aline.cells)
              /\ \A i \in 1 .. Len(aline'.cells) : aline'.cells[i] = Cell(" ", lastArgs'[1])
              /\ aline'.wrap = 0
              /\ ~aline'.cont]_vars

ALineShapeWitness ==
    /\ lastOp = "resize"
    /\ lastArgs = <<1>>
    /\ aline.wrap = 1
    /\ aline.cells = <<Cell("A", StyleNormal)>>

(***************************************************************************)
(* The Deduper and the history of the two buffers that share it.  A       *)
(* paragraph is known by its content, here one of Paras; its tag is the   *)
(* entry the Deduper keeps for that content.  D is the Deduper with the   *)
(* histories: [deduper, hist].                                             *)
(***************************************************************************)
MaxHistory == 2      \* history limit of the primary buffer, in lines
MaxLostTags == 1     \* tags a buffer may lose before it stops scrolling
MaxSegments == 2     \* lines a paragraph wraps into
MaxTags == 2         \* tags a buffer holds after a reflow

Paras == {"p", "q"}

(* Terminal::Terminal: the alternate buffer keeps no history.              *)
HistoryLimit == [pri |-> MaxHistory, alt |-> 0]

D == [deduper |-> deduper, hist |-> hist]

store(d, para) ==
    [d EXCEPT !.deduper =
        IF para \in @.entries THEN [@ EXCEPT !.refs[para] = @ + 1]
        ELSE [entries |-> @.entries \cup {para}, refs |-> [@.refs EXCEPT ![para] = 1]]]

release(d, para) ==
    [d EXCEPT !.deduper =
        IF @.refs[para] > 1 THEN [@ EXCEPT !.refs[para] = @ - 1]
        ELSE [entries |-> @.entries \ {para}, refs |-> [@.refs EXCEPT ![para] = 0]]]

HLinesOf(index, n) == [s \in 1 .. n |-> [index |-> index, seqnum |-> s - 1]]

RECURSIVE enforceHistoryLimitKeepsTag(_, _)
enforceHistoryLimitKeepsTag(d, b) ==
    LET h == d.hist[b]
    IN IF Len(h.history) <= HistoryLimit[b] THEN d
       ELSE LET popped == Head(h.history)
                rest   == Tail(h.history)
                last   == rest = <<>> \/ Head(rest).index # popped.index
            IN enforceHistoryLimitKeepsTag(
                   IF last
                   THEN [d EXCEPT !.hist[b] =
                            [tags |-> Tail(h.tags), lostTags |-> h.lostTags + 1,
                             history |-> rest]]
                   ELSE [d EXCEPT !.hist[b].history = rest], b)

(* While the history is longer than the limit its first line goes; the    *)
(* tag goes with the last line that refers to it.                          *)
RECURSIVE enforceHistoryLimit(_, _)
enforceHistoryLimit(d, b) ==
    LET h == d.hist[b]
    IN IF Len(h.history) <= HistoryLimit[b] THEN d
       ELSE LET popped == Head(h.history)
                rest   == Tail(h.history)
                last   == rest = <<>> \/ Head(rest).index # popped.index
            IN enforceHistoryLimit(
                   IF last
                   THEN [release(d, h.tags[popped.index - h.lostTags + 1])
                            EXCEPT !.hist[b] =
                                [tags |-> Tail(h.tags), lostTags |-> h.lostTags + 1,
                                 history |-> rest]]
                   ELSE [d EXCEPT !.hist[b].history = rest], b)

(* A paragraph of n lines is complete: it is stored, its tag and one      *)
(* HLine for each of its lines are recorded.                               *)
bump(d, b, para, n) ==
    LET h == d.hist[b]
    IN [store(d, para) EXCEPT !.hist[b] =
           [tags |-> Append(h.tags, para), lostTags |-> h.lostTags,
            history |-> h.history \o HLinesOf(h.lostTags + Len(h.tags), n)]]

(* The last line of the history returns to the active region; the tag     *)
(* goes with the first line of its paragraph.                              *)
unbump(d, b) ==
    LET h    == d.hist[b]
        back == h.history[Len(h.history)]
        rest == SubSeq(h.history, 1, Len(h.history) - 1)
    IN IF back.seqnum = 0
       THEN [release(d, h.tags[Len(h.tags)]) EXCEPT !.hist[b] =
                [tags |-> SubSeq(h.tags, 1, Len(h.tags) - 1), lostTags |-> h.lostTags,
                 history |-> rest]]
       ELSE [d EXCEPT !.hist[b].history = rest]

addLineToHistory(d, b, para, n) == enforceHistoryLimit(bump(d, b, para, n), b)

RECURSIVE releaseAll(_, _)
releaseAll(d, tags) ==
    IF tags = <<>> THEN d ELSE releaseAll(release(d, Head(tags)), Tail(tags))

clearHistory(d, b) ==
    LET h == d.hist[b]
    IN [releaseAll(d, h.tags) EXCEPT !.hist[b] =
           [tags |-> <<>>, lostTags |-> h.lostTags + Len(h.tags), history |-> <<>>]]

(* Every tag is wrapped again, into n lines each.                          *)
RECURSIVE rebuildHistory(_, _, _)
rebuildHistory(h, i, n) ==
    IF i > Len(h.tags) THEN <<>>
    ELSE HLinesOf(h.lostTags + i - 1, n) \o rebuildHistory(h, i + 1, n)

RECURSIVE unbumpRows(_, _, _)
unbumpRows(d, b, nrows) ==
    IF nrows = 0 \/ d.hist[b].history = <<>> THEN d
    ELSE unbumpRows(unbump(d, b), b, nrows - 1)

RECURSIVE bumpAll(_, _, _)
bumpAll(d, b, paras) ==
    IF paras = <<>> THEN d
    ELSE bumpAll(bump(d, b, Head(paras), 1), b, Tail(paras))

(* The paragraphs of the active region are stored, the history is built   *)
(* again from the tags at n lines a paragraph, and nrows lines return to  *)
(* the active region.                                                      *)
resizeReflow(d, b, paras, n, nrows) ==
    LET d1 == bumpAll(d, b, paras)
        d2 == [d1 EXCEPT !.hist[b].history = rebuildHistory(d1.hist[b], 1, n)]
    IN unbumpRows(d2, b, nrows)

(***************************************************************************)
(* Specification SpecDeduper: lines scrolling into the history, history   *)
(* limits, clear-history and reflowing resizes on both buffers.            *)
(***************************************************************************)
InstallDeduper(d, op) ==
    /\ deduper' = d.deduper
    /\ hist' = d.hist
    /\ lastOp' = op
    /\ UNCHANGED <<rows, cols, cursor, savedCursor, modes, buffer, margins, tabs, cells,
                   mouseVars, extVars, searchVars, hexVars, lineVars, reflowVars, req, lastArgs, typed,
                   ioVars,
                   syncVars, damageVars>>

DeduperScroll ==
    \E b \in {"pri", "alt"}, para \in Paras, n \in 1 .. MaxSegments :
        /\ hist[b].lostTags < MaxLostTags
        /\ InstallDeduper(addLineToHistory(D, b, para, n), "addLine")

DeduperClear ==
    \E b \in {"pri", "alt"} :
        /\ hist[b].lostTags + Len(hist[b].tags) <= MaxLostTags
        /\ InstallDeduper(clearHistory(D, b), "clearHistory")

DeduperReflow ==
    \E b \in {"pri", "alt"}, paras \in {<<>>, <<"q">>},
       n \in 1 .. MaxSegments, nrows \in {1, MaxHistory} :
        /\ Len(hist[b].tags) + Len(paras) <= MaxTags
        /\ InstallDeduper(resizeReflow(D, b, paras, n, nrows), "resizeReflow")

NextDeduper ==
    \/ DeduperScroll
    \/ DeduperClear
    \/ DeduperReflow

SpecDeduper == InitOut /\ [][NextDeduper]_vars

RECURSIVE Occurrences(_, _)
Occurrences(tags, para) ==
    IF tags = <<>> THEN 0
    ELSE (IF Head(tags) = para THEN 1 ELSE 0) + Occurrences(Tail(tags), para)

References(para) == Occurrences(hist.pri.tags, para) + Occurrences(hist.alt.tags, para)

(***************************************************************************)
(* C28: the reference count of each paragraph tag is the number of        *)
(* references the two buffers hold to it, the Deduper keeps a tag exactly *)
(* while a reference to it is left, and every history line refers to a    *)
(* tag its buffer holds and the Deduper keeps.                             *)
(***************************************************************************)
DeduperRefcountLaw ==
    /\ \A para \in Paras :
          /\ deduper.refs[para] = References(para)
          /\ para \in deduper.entries <=> References(para) > 0
    /\ \A b \in {"pri", "alt"} :
          \A i \in 1 .. Len(hist[b].history) :
              LET at == hist[b].history[i].index - hist[b].lostTags + 1
              IN /\ at \in 1 .. Len(hist[b].tags)
                 /\ hist[b].tags[at] \in deduper.entries

DeduperRefcountLawWitness ==
    /\ lastOp = "addLine"
    /\ hist.pri.lostTags > 0
    /\ hist.alt.lostTags > 0
    /\ Len(hist.pri.history) = MaxHistory
    /\ deduper.refs["p"] = 2
    /\ "q" \notin deduper.entries

(***************************************************************************)
(* The reflowing resize on the lines of a buffer.  A line is the cells up *)
(* to its wrap column and its continuation flag; a paragraph is the cells *)
(* of the lines a run of continuation flags joins.                         *)
(***************************************************************************)
BlankLine == [cells |-> <<>>, cont |-> FALSE]

(* The paragraphs of lines; inflight holds the paragraph in flight.         *)
RECURSIVE Paragraphs(_, _)
Paragraphs(lines, inflight) ==
    IF lines = <<>> THEN (IF inflight = <<>> THEN <<>> ELSE <<inflight>>)
    ELSE LET line == Head(lines)
         IN IF line.cont
            THEN Paragraphs(Tail(lines), inflight \o line.cells)
            ELSE <<inflight \o line.cells>> \o Paragraphs(Tail(lines), <<>>)

(* The lines of one paragraph at ncols columns, the last one possibly     *)
(* short.                                                                  *)
RECURSIVE rewrapMarksEveryLine(_, _)
rewrapMarksEveryLine(para, ncols) ==
    IF Len(para) <= ncols THEN <<[cells |-> para, cont |-> Len(para) = ncols]>>
    ELSE <<[cells |-> SubSeq(para, 1, ncols), cont |-> TRUE]>>
         \o rewrapMarksEveryLine(SubSeq(para, ncols + 1, Len(para)), ncols)

RECURSIVE rewrap(_, _)
rewrap(para, ncols) ==
    IF Len(para) <= ncols THEN <<[cells |-> para, cont |-> FALSE]>>
    ELSE <<[cells |-> SubSeq(para, 1, ncols), cont |-> TRUE]>>
         \o rewrap(SubSeq(para, ncols + 1, Len(para)), ncols)

RECURSIVE rewrapAll(_, _)
rewrapAll(paras, ncols) ==
    IF paras = <<>> THEN <<>>
    ELSE rewrap(Head(paras), ncols) \o rewrapAll(Tail(paras), ncols)

(* resize_reflow(new_rows, new_cols): the paragraphs of the history and   *)
(* the active region are wrapped again and the last new_rows lines make   *)
(* up the active region.                                                   *)
resize_reflow(ct, nrows, ncols) ==
    LET lines == rewrapAll(Paragraphs(ct.history \o ct.active, <<>>), ncols)
        n     == Len(lines)
    IN IF n >= nrows
       THEN [cols |-> ncols, history |-> SubSeq(lines, 1, n - nrows),
             active |-> SubSeq(lines, n - nrows + 1, n)]
       ELSE [cols |-> ncols, history |-> <<>>,
             active |-> lines \o [r \in 1 .. nrows - n |-> BlankLine]]

(***************************************************************************)
(* Specification SpecReflow: text written to the active region, lines     *)
(* scrolling into the history and reflowing resizes.                       *)
(***************************************************************************)
InstallReflow(ct, op, args) ==
    /\ content' = ct
    /\ lastOp' = op
    /\ lastArgs' = args
    /\ UNCHANGED <<rows, cols, cursor, savedCursor, modes, buffer, margins, tabs, cells,
                   mouseVars, extVars, searchVars, hexVars, lineVars, dedupVars, req, ioVars,
                   syncVars, damageVars>>

(* A line of text in the active region: full and continuing, or short.     *)
ReflowWrite ==
    /\ typed < MaxTyped
    /\ typed' = typed + 1
    /\ \E r \in 1 .. Len(content.active), full \in BOOLEAN :
          InstallReflow(
              [content EXCEPT !.active[r] =
                  IF full THEN [cells |-> [c \in 1 .. content.cols |-> "b"], cont |-> TRUE]
                  ELSE [cells |-> <<"a">>, cont |-> FALSE]],
              "write", <<>>)

ReflowScroll ==
    /\ Len(content.history) < MaxHistory
    /\ InstallReflow(
           [content EXCEPT !.history = Append(@, Head(content.active)),
                           !.active = Tail(@) \o <<BlankLine>>],
           "addLine", <<>>)
    /\ UNCHANGED typed

ReflowResize ==
    /\ \E nrows \in 1 .. MaxRows, ncols \in 1 .. MaxCols :
          InstallReflow(resize_reflow(content, nrows, ncols), "resizeReflow",
                        <<nrows, ncols>>)
    /\ UNCHANGED typed

NextReflow ==
    \/ ReflowWrite
    \/ ReflowScroll
    \/ ReflowResize

SpecReflow == InitOut /\ [][NextReflow]_vars

(***************************************************************************)
(* C29: a resize_reflow(r, c) that follows a resize_reflow(r, c) with the *)
(* same dimensions leaves the history lines, the active lines and their   *)
(* continuation flags as the first one left them.                          *)
(***************************************************************************)
ReflowIdempotent ==
    [][(lastOp = "resizeReflow" /\ lastOp' = "resizeReflow" /\ lastArgs' = lastArgs)
           => content' = content]_vars

ReflowIdempotentWitness ==
    /\ lastOp = "resizeReflow"
    /\ lastArgs = <<1, 1>>
    /\ Len(content.history) > MaxHistory
    /\ content.history[1].cont
    /\ content.active[1].cells = <<"a">>

(***************************************************************************)
(* Buffer::Damage: the damage of one visible line, a half-open interval   *)
(* of columns.                                                             *)
(***************************************************************************)
MaxDamageCol == 3    \* largest column handed to damageAdd

(***************************************************************************)
(* Specification SpecRowDamage: intervals accumulate in one Damage, which *)
(* is reset now and then.                                                  *)
(***************************************************************************)
InstallRowDamage(d, op, args) ==
    /\ rowDamage' = d
    /\ lastOp' = op
    /\ lastArgs' = args
    /\ UNCHANGED <<rows, cols, cursor, savedCursor, modes, buffer, margins, tabs, cells,
                   mouseVars, searchVars, hexVars, lineVars, dedupVars, reflowVars, matchVars,
                   selVars, pointerVars, req, typed, ioVars, syncVars, damageVars>>

(* damageAdd asserts begin_ <= end_.                                       *)
RowDamageAdd ==
    \E begin_ \in 0 .. MaxDamageCol, end_ \in 0 .. MaxDamageCol :
        /\ begin_ <= end_
        /\ InstallRowDamage(damageAdd(rowDamage, begin_, end_), "damageAdd", <<begin_, end_>>)
        /\ added' = IF begin_ < end_ THEN added \cup {<<begin_, end_>>} ELSE added

RowDamageReset ==
    /\ InstallRowDamage(NoDamage, "reset", <<>>)
    /\ added' = {}

NextRowDamage ==
    \/ RowDamageAdd
    \/ RowDamageReset

SpecRowDamage == InitOut /\ [][NextRowDamage]_vars

(* The smallest single interval that covers every interval of s.           *)
Covers(d, s) ==
    /\ \A i \in s : d.begin <= i[1] /\ i[2] <= d.end
    /\ \E i \in s : d.begin = i[1]
    /\ \E i \in s : d.end = i[2]

RowDamageCovers ==
    /\ rowDamage.begin <= rowDamage.end
    /\ added = {} => rowDamage.begin = rowDamage.end
    /\ added # {} => Covers(rowDamage, added)

(***************************************************************************)
(* C31: a Damage starts empty and is empty after a reset; after any       *)
(* damageAdd calls begin <= end, and [begin, end) is the smallest single  *)
(* interval that covers every non-empty interval added since the last     *)
(* reset; adding an empty interval changes nothing.                        *)
(***************************************************************************)
DamageAccumulates ==
    /\ []RowDamageCovers
    /\ [][(lastOp' = "damageAdd" /\ lastArgs'[1] = lastArgs'[2])
             => rowDamage' = rowDamage]_vars

(* Reached: two disjoint intervals were added and then an empty one that   *)
(* lies outside both; the damage spans the gap between the two.            *)
DamageAccumulatesWitness ==
    /\ lastOp = "damageAdd"
    /\ lastArgs = <<MaxDamageCol, MaxDamageCol>>
    /\ added = {<<0, 1>>, <<2, 3>>}
    /\ rowDamage = [begin |-> 0, end |-> 3]

(***************************************************************************)
(* C32: in every reachable state of the controller wrap_next is set only  *)
(* if the cursor is in the last column, across printable output, cursor   *)
(* movement, ESC 7 / ESC 8, the modes 1048 and 1049 and resize.           *)
(***************************************************************************)
WrapNextInLastColumn == cursor.wrapNext => cursor.col = cols - 1

(***************************************************************************)
(* Regex::matchAllOffsets.  pcre_exec is a library call; it is modelled   *)
(* on the patterns a, a+ and a* over texts of a and b, where it reports   *)
(* the leftmost match at or after the offset, as long as possible.        *)
(***************************************************************************)
MaxText == 3         \* length of the subject text
MaxMatches == 3      \* elements of allOffsets the model keeps

MatchPatterns == {"a", "a+", "a*"}
Texts == UNION {[1 .. n -> {"a", "b"}] : n \in 0 .. MaxText}

Substr(first_, last_) == [first |-> first_, last |-> last_]

(* The end of the run of a that starts at offset i (0-based).              *)
RECURSIVE RunEnd(_, _)
RunEnd(text, i) ==
    IF i < Len(text) /\ text[i + 1] = "a" THEN RunEnd(text, i + 1) ELSE i

(* The whole match as a sequence of one Substr, or <<>> for                *)
(* PCRE_ERROR_NOMATCH.                                                     *)
pcre_exec(pattern, text, offset) ==
    LET as == {i \in offset .. Len(text) - 1 : text[i + 1] = "a"}
        i0 == CHOOSE i \in as : \A j \in as : i <= j
    IN CASE pattern = "a*" -> <<Substr(offset, RunEnd(text, offset))>>
         [] pattern = "a+" -> IF as = {} THEN <<>> ELSE <<Substr(i0, RunEnd(text, i0))>>
         [] OTHER          -> IF as = {} THEN <<>> ELSE <<Substr(i0, i0 + 1)>>

common(pattern, text, offset) == pcre_exec(pattern, text, offset)

(* allOffsets.push_back: the model keeps the first MaxMatches elements.    *)
push_back(all, offsets) == IF Len(all) < MaxMatches THEN Append(all, offsets) ELSE all

(* The body of the for (;;) after the call of common.                      *)
matchAllOffsets(f) ==
    IF f.offsets = <<>> THEN [f EXCEPT !.pc = "done"]
    ELSE LET offset == Head(f.offsets).last
         IN [f EXCEPT !.offset = offset,
                      !.allOffsets = push_back(@, f.offsets),
                      !.pc = IF offset = Len(f.text) THEN "done" ELSE "exec"]

(***************************************************************************)
(* Specification SpecMatch: calls of matchAllOffsets, one after another,  *)
(* each in the three steps of its loop.  The call runs in one thread and  *)
(* nothing suspends it, so each step is taken once it is enabled.         *)
(***************************************************************************)
InstallMatch(f, op) ==
    /\ match' = f
    /\ lastOp' = op
    /\ UNCHANGED <<rows, cols, cursor, savedCursor, modes, buffer, margins, tabs, cells,
                   mouseVars, searchVars, hexVars, lineVars, dedupVars, reflowVars, rowVars,
                   selVars, pointerVars, req, lastArgs, typed, ioVars, syncVars, damageVars>>

MatchCall ==
    /\ match.pc \in {"idle", "done"}
    /\ \E pattern \in MatchPatterns, text \in Texts :
          InstallMatch([pc |-> "exec", pattern |-> pattern, text |-> text, offset |-> 0,
                        offsets |-> <<>>, allOffsets |-> <<>>], "matchAllOffsets")

MatchCommon ==
    /\ match.pc = "exec"
    /\ InstallMatch([match EXCEPT !.offsets = common(match.pattern, match.text, match.offset),
                                  !.pc = "test"], "common")

MatchLoop ==
    /\ match.pc = "test"
    /\ InstallMatch(matchAllOffsets(match), "loop")

NextMatch ==
    \/ MatchCall
    \/ MatchCommon
    \/ MatchLoop

SpecMatch ==
    /\ InitOut /\ [][NextMatch]_vars
    /\ WF_vars(MatchCommon) /\ WF_vars(MatchLoop)

(***************************************************************************)
(* C33: every call of matchAllOffsets returns, for every pattern and      *)
(* every text, patterns that match the empty string included.             *)
(***************************************************************************)
MatchAllOffsetsTerminates == (match.pc = "exec") ~> (match.pc = "done")

(***************************************************************************)
(* Specification SpecMouseModes: private mode requests that name the      *)
(* mouse modes, and full resets.                                           *)
(***************************************************************************)
MouseModeArgs == {1, 1000, 1002, 1006}
MouseModeLists == {<<a>> : a \in MouseModeArgs} \cup {<<a, b>> : a, b \in MouseModeArgs}

InstallModes(m, op, args) ==
    /\ InstallCursor(m)
    /\ lastOp' = op
    /\ lastArgs' = args
    /\ UNCHANGED <<req, typed, ioVars, syncVars, damageVars>>

ModesSet ==
    \E mode \in {"h", "l"}, args \in MouseModeLists :
        InstallModes(machineCsi(M, TRUE, args, mode), mode, args)

ModesRIS == InstallModes(machineEscape(M, "c"), "RIS", <<>>)

NextMouseModes ==
    \/ ModesSet
    \/ ModesRIS

SpecMouseModes == InitOut /\ [][NextMouseModes]_vars

(* The mode the last 1000 or 1002 of the request names.                    *)
RECURSIVE LastMouseMode(_)
LastMouseMode(args) ==
    IF args = <<>> THEN "none"
    ELSE IF args[Len(args)] = 1000 THEN "MOUSE_BUTTON"
    ELSE IF args[Len(args)] = 1002 THEN "MOUSE_MOTION"
    ELSE LastMouseMode(SubSeq(args, 1, Len(args) - 1))

MouseModesOf(ms) == ms \cap {"MOUSE_BUTTON", "MOUSE_MOTION"}

(***************************************************************************)
(* C34: MOUSE_BUTTON and MOUSE_MOTION are never both set; after a request *)
(* that sets 1000 or 1002 the mode it names is the one mouse mode set;    *)
(* after a request that resets either, and after a full reset, neither is *)
(* set.                                                                     *)
(***************************************************************************)
MouseModesExclusive ==
    /\ ~({"MOUSE_BUTTON", "MOUSE_MOTION"} \subseteq modes)
    /\ (lastOp = "h" /\ LastMouseMode(lastArgs) # "none")
           => MouseModesOf(modes) = {LastMouseMode(lastArgs)}
    /\ (lastOp = "l" /\ LastMouseMode(lastArgs) # "none") => MouseModesOf(modes) = {}
    /\ lastOp = "RIS" => MouseModesOf(modes) = {}

(* Reached: 1002 was set while 1000 was set, which cleared it.             *)
MouseModesExclusiveWitness ==
    /\ lastOp = "h"
    /\ lastArgs = <<1000, 1002>>
    /\ "MOUSE_SGR" \in modes
    /\ MouseModesOf(modes) = {"MOUSE_MOTION"}

(***************************************************************************)
(* What the three pointer handlers do besides reporting: the call to the  *)
(* selection of the buffer or to the clipboard of the observer, "none"    *)
(* where the handler makes none.                                           *)
(***************************************************************************)
buttonPressSelection(m, b, count) ==
    IF "MOUSE_BUTTON" \in m.modes THEN "none"
    ELSE CASE b = "LEFT"   -> IF count = 1 THEN "markSelection" ELSE "expandSelection"
           [] b = "MIDDLE" -> "terminalPaste"
           [] b = "RIGHT"  -> "adjustSelection"

buttonMotionSelection(m, b) ==
    IF "MOUSE_MOTION" \in m.modes THEN "none"
    ELSE IF "MOUSE_BUTTON" \notin m.modes /\ b = "LEFT" THEN "delimitSelection"
    ELSE "none"

(* getSelectedText tells whether there is selected text.                   *)
buttonReleaseSelection(m, getSelectedText) ==
    IF "MOUSE_BUTTON" \in m.modes THEN "none"
    ELSE IF getSelectedText THEN "terminalCopy"
    ELSE "none"

(***************************************************************************)
(* Specification SpecSelect: the pointer on a small grid, with the mouse  *)
(* modes set and reset.                                                     *)
(***************************************************************************)
SelectMode ==
    /\ \E set \in BOOLEAN, a \in {1000, 1002} :
          InstallWrite(processMode(M, TRUE, set, a), "mode", <<>>)
    /\ UNCHANGED typed

SelectPress ==
    /\ ~pressed
    /\ \E b \in Buttons, count \in {1, 2}, pos \in PointerPositions :
          /\ InstallMouse(buttonPress(M, b, {}, pos), "buttonPress", pos,
                          "MOUSE_BUTTON" \notin modes /\ b \in {"LEFT", "RIGHT"})
          /\ selOp' = buttonPressSelection(M, b, count)
          /\ pressed' = TRUE
          /\ button' = b
          /\ pointerPos' = pos

SelectMotion ==
    /\ pressed
    /\ \E within \in BOOLEAN, pos \in PointerPositions :
          /\ pos.col = cols => ~within
          /\ InstallMouse(buttonMotion(M, button, {}, within, pos),
                          IF within THEN "buttonMotion" ELSE "buttonMotionOutside", pos,
                          modes \cap {"MOUSE_MOTION", "MOUSE_BUTTON"} = {} /\ button = "LEFT")
          /\ selOp' = buttonMotionSelection(M, button)
          /\ pointerPos' = pos
          /\ UNCHANGED <<pressed, button>>

SelectRelease ==
    /\ pressed
    /\ \E getSelectedText \in BOOLEAN :
          /\ InstallMouse(buttonRelease(M, button, {}, pointerPos), "buttonRelease",
                          pointerPos, FALSE)
          /\ selOp' = buttonReleaseSelection(M, getSelectedText)
    /\ pressed' = FALSE
    /\ UNCHANGED <<button, pointerPos>>

NextSelect ==
    \/ SelectMode
    \/ SelectPress
    \/ SelectMotion
    \/ SelectRelease

SpecSelect == InitOut /\ [][NextSelect]_vars

(***************************************************************************)
(* C35: while MOUSE_BUTTON or MOUSE_MOTION is set, a button press, a      *)
(* pointer motion and a button release only report: none of them marks,   *)
(* expands, delimits or adjusts the selection, copies the selected text   *)
(* or requests a paste.                                                     *)
(***************************************************************************)
PointerOnlyReported ==
    (/\ lastOp \in {"buttonPress", "buttonMotion", "buttonMotionOutside", "buttonRelease"}
     /\ modes \cap {"MOUSE_BUTTON", "MOUSE_MOTION"} # {})
        => selOp = "none"

(***************************************************************************)
(* Screen::buttonPress, Screen::buttonRelease and Screen::leaveNotify.    *)
(* Each yields the pointer fields of the Screen and the handler of the    *)
(* Terminal it calls, "none" where it calls none.                          *)
(***************************************************************************)
MaxPressCount == 2   \* presses counted as one multiple click

XCB_BUTTON_INDEX_1 == 1
XCB_BUTTON_INDEX_5 == 5

(* The Terminal::Button of a detail of 1 .. 3.                             *)
ButtonOf(detail) ==
    CASE detail = 1 -> "LEFT" [] detail = 2 -> "MIDDLE" [] OTHER -> "RIGHT"

screenButtonPressForwardsHeld(s, isOpen, detail, quick) ==
    IF ~isOpen \/ detail < XCB_BUTTON_INDEX_1 \/ detail > XCB_BUTTON_INDEX_5
    THEN [s |-> s, call |-> "none"]
    ELSE IF detail \in {4, 5} THEN [s |-> s, call |-> "scrollWheel"]
    ELSE [s |-> [pressed |-> TRUE, button |-> detail,
                 pressCount |-> IF s.button # detail \/ ~quick THEN 1
                                ELSE s.pressCount + 1],
          call |-> "buttonPress"]

(* quick: the press came within the double-click timeout of the last one.  *)
screenButtonPress(s, isOpen, detail, quick) ==
    IF ~isOpen \/ detail < XCB_BUTTON_INDEX_1 \/ detail > XCB_BUTTON_INDEX_5
    THEN [s |-> s, call |-> "none"]
    ELSE IF detail \in {4, 5} THEN [s |-> s, call |-> "scrollWheel"]
    ELSE IF s.pressed THEN [s |-> s, call |-> "none"]
    ELSE [s |-> [pressed |-> TRUE, button |-> detail,
                 pressCount |-> IF s.button # detail \/ ~quick THEN 1
                                ELSE s.pressCount + 1],
          call |-> "buttonPress"]

screenButtonRelease(s, isOpen, detail) ==
    IF ~isOpen \/ detail < XCB_BUTTON_INDEX_1 \/ detail > XCB_BUTTON_INDEX_5
    THEN [s |-> s, call |-> "none"]
    ELSE IF s.pressed /\ s.button = detail
    THEN [s |-> [s EXCEPT !.pressed = FALSE], call |-> "buttonRelease"]
    ELSE [s |-> s, call |-> "none"]

leaveNotify(s, mode) ==
    IF mode = 2 /\ s.pressed
    THEN [s |-> [s EXCEPT !.pressed = FALSE], call |-> "buttonRelease"]
    ELSE [s |-> s, call |-> "none"]

(***************************************************************************)
(* Specification SpecPointer: button presses, button releases and leave   *)
(* notifications in any order, and the end of the child, which closes the *)
(* Screen.  The Terminal handlers assert on _pressed and assign it.       *)
(***************************************************************************)
InstallPointer(r, b, op, args) ==
    /\ pointer' = r.s
    /\ asserts' = CASE r.call = "buttonPress" /\ pressed -> asserts \cup {"buttonPress"}
                    [] r.call = "buttonRelease" /\ ~pressed -> asserts \cup {"buttonRelease"}
                    [] OTHER -> asserts
    /\ pressed' = CASE r.call = "buttonPress" -> TRUE
                    [] r.call = "buttonRelease" -> FALSE
                    [] OTHER -> pressed
    /\ button' = IF r.call = "buttonPress" THEN b ELSE button
    /\ lastOp' = r.call
    /\ lastArgs' = <<op>> \o args
    /\ UNCHANGED <<rows, cols, cursor, savedCursor, modes, buffer, margins, tabs, cells,
                   pointerPos, searchVars, hexVars, lineVars, dedupVars, reflowVars, rowVars,
                   matchVars, selVars, req, typed, ioVars, dispatch, pc, xevents, reached,
                   pumpVars, damageVars>>

XButtonPress ==
    /\ \E detail \in 0 .. 6, quick \in BOOLEAN :
          /\ quick => pointer.pressCount < MaxPressCount
          /\ InstallPointer(screenButtonPress(pointer, open, detail, quick), ButtonOf(detail),
                            "press", <<detail>>)
    /\ UNCHANGED open

XButtonRelease ==
    /\ \E detail \in 0 .. 6 :
          InstallPointer(screenButtonRelease(pointer, open, detail), button,
                         "release", <<detail>>)
    /\ UNCHANGED open

XLeaveNotify ==
    /\ \E mode \in 0 .. 3 :
          InstallPointer(leaveNotify(pointer, mode), button, "leave", <<mode>>)
    /\ UNCHANGED open

PointerClose ==
    /\ open
    /\ open' = FALSE
    /\ InstallPointer([s |-> pointer, call |-> "none"], button, "close", <<>>)

NextPointer ==
    \/ XButtonPress
    \/ XButtonRelease
    \/ XLeaveNotify
    \/ PointerClose

SpecPointer == InitOut /\ [][NextPointer]_vars

(***************************************************************************)
(* C36: the Screen calls Terminal::buttonPress only while the Terminal    *)
(* holds no button and Terminal::buttonRelease only while it holds one,   *)
(* so neither ASSERT on _pressed fails; a press while a button is held, a *)
(* release of another button than the held one and the wheel buttons 4    *)
(* and 5 leave the held state as it is.                                    *)
(***************************************************************************)
PressReleaseAlternate ==
    /\ [](asserts = {} /\ pointer.pressed = pressed)
    /\ [][/\ lastOp' = "buttonPress" => ~pressed /\ pressed'
          /\ lastOp' = "buttonRelease" => pressed /\ ~pressed'
          /\ lastOp' \in {"none", "scrollWheel"} => pressed' = pressed /\ pointer' = pointer
         ]_vars

(* Reached: the middle button was pressed while the left one was held, and *)
(* the press was ignored.                                                   *)
PressReleaseAlternateWitness ==
    /\ lastArgs = <<"press", 2>>
    /\ lastOp = "none"
    /\ open
    /\ pressed /\ button = "LEFT"
    /\ pointer.button = XCB_BUTTON_INDEX_1

(***************************************************************************)
(* Specification SpecDefer: the Screen under the EventLoop.  One pass of  *)
(* EventLoop::loop runs Selector::animate (the X events on the            *)
(* descriptor, Terminal::read on the pty, the reaping of the child),      *)
(* polls the X events left and handles a deferral.  The font cell is one  *)
(* pixel wide and high and there is no border, so a geometry of width w   *)
(* and height h holds h rows of w columns.                                 *)
(***************************************************************************)
MaxNotified == 2     \* screenDefer notifications counted per deferral

Positions == {0, 1}

(* The grids have one row; DECCOLM asks for the widest or the next         *)
(* narrower one.                                                           *)
RowMode(set) == <<1, IF set THEN MaxCols ELSE MaxCols - 1>>

RowSizes == {RowMode(TRUE), RowMode(FALSE)}

Size(g) == <<g.width, g.height>>

(* The Screen, the EventLoop and the history as one record; the Terminal  *)
(* size a handler asked for is terminalResize.                             *)
Scr ==
    [geometry |-> screen.geometry,
     deferredGeometry |-> screen.deferredGeometry,
     deferralsAllowed |-> screen.deferralsAllowed,
     x11PseudoTransparency |-> screen.x11PseudoTransparency,
     pixmap |-> screen.pixmap,
     surface |-> screen.surface,
     hadDeleteRequest |-> screen.hadDeleteRequest,
     entitlement |-> screen.entitlement,
     title |-> screen.title,
     deferred |-> deferred,
     mapped |-> mapped,
     open |-> open,
     deferral |-> evloop.deferral,
     windowOpen |-> evloop.windowOpen,
     received |-> watch.received,
     notified |-> watch.notified,
     pixmapFor |-> watch.pixmapFor,
     drewStale |-> watch.drewStale,
     copied |-> FALSE,
     destroyed |-> watch.destroyed,
     lastMap |-> watch.lastMap,
     sinceDelete |-> watch.sinceDelete,
     subprocess |-> watch.subprocess,
     failed |-> watch.failed,
     terminalResize |-> <<>>]

(* ASSERT(ok, ...) in handler name.                                        *)
Check(s, ok, name) == IF ok THEN s ELSE [s EXCEPT !.failed = @ \cup {name}]

CheckPixmap(s, name) == Check(s, s.pixmap # 0 /\ s.surface, name)

copyPixmapToWindow(s) == [s EXCEPT !.copied = TRUE]

(* Screen::renderPixmap draws the border and the Terminal into the        *)
(* pixmap.  The pixmap is stale when a deferral is outstanding and the     *)
(* pixmap was made for another size than the window now has.               *)
renderPixmap(s) ==
    LET a == CheckPixmap(Check(s, s.mapped, "renderPixmap"), "renderPixmap")
    IN [a EXCEPT !.drewStale = @ \/ (s.deferred /\ s.pixmapFor # Size(s.deferredGeometry))]

createPixmapAndSurface(s) ==
    renderPixmap([s EXCEPT !.pixmap = 1, !.surface = TRUE, !.pixmapFor = Size(s.geometry)])

destroySurfaceAndPixmap(s) ==
    [s EXCEPT !.surface = FALSE, !.pixmap = 0, !.pixmapFor = <<>>]

mapNotifyKeepsPixmap(s) ==
    [Check(s, ~s.mapped, "mapNotify") EXCEPT !.mapped = TRUE]

mapNotify(s) ==
    createPixmapAndSurface([Check(s, ~s.mapped, "mapNotify") EXCEPT !.mapped = TRUE])

unmapNotify(s) ==
    destroySurfaceAndPixmap([Check(s, s.mapped, "unmapNotify") EXCEPT !.mapped = FALSE])

expose(s) ==
    IF s.deferred THEN s
    ELSE LET a == Check(s, s.mapped, "expose")
         IN IF a.mapped THEN copyPixmapToWindow(CheckPixmap(a, "expose")) ELSE a

redraw(s) ==
    IF s.mapped
    THEN copyPixmapToWindow(renderPixmap(CheckPixmap(s, "redraw")))
    ELSE s

(* Screen::handleResize: the geometry, the Terminal, the delete request,  *)
(* the title and the pixmap.                                               *)
handleResize(s) ==
    LET a == [s EXCEPT !.geometry = s.deferredGeometry,
                       !.terminalResize = <<s.deferredGeometry.height,
                                            s.deferredGeometry.width>>,
                       !.hadDeleteRequest = FALSE,
                       !.entitlement = IF @ # "PENDING" THEN "PERMANENT" ELSE @,
                       !.title = IF s.entitlement # "PENDING" THEN "title" ELSE @,
                       !.sinceDelete = "clear"]
    IN IF a.mapped
       THEN copyPixmapToWindow(createPixmapAndSurface(
                destroySurfaceAndPixmap(CheckPixmap(a, "handleResize"))))
       ELSE a

handleMove(s) ==
    LET a == [Check(s, s.x11PseudoTransparency, "handleMove")
                 EXCEPT !.geometry = s.deferredGeometry]
    IN IF a.mapped
       THEN copyPixmapToWindow(renderPixmap(CheckPixmap(a, "handleMove")))
       ELSE a

handleConfigure(s) ==
    IF Size(s.deferredGeometry) # Size(s.geometry) THEN handleResize(s)
    ELSE IF s.x11PseudoTransparency THEN handleMove(s)
    ELSE s

(* Screen::configureNotify; e.flag is whether the coordinates could be    *)
(* translated.  screenDefer is EventLoop::windowDefer.                     *)
configureNotify(s, e) ==
    LET r == [s EXCEPT !.received = <<e.width, e.height>>]
    IN IF ~r.deferred /\ ~r.x11PseudoTransparency /\ Size(r.geometry) = <<e.width, e.height>>
       THEN r
       ELSE LET a == [r EXCEPT !.deferredGeometry =
                                   Geometry(e.width, e.height, IF e.flag THEN e.x ELSE @.x)]
            IN IF a.deferralsAllowed
               THEN IF ~a.deferred
                    THEN [a EXCEPT !.deferral = TRUE,
                                   !.notified = IF @ < MaxNotified THEN @ + 1 ELSE @,
                                   !.deferred = TRUE]
                    ELSE a
               ELSE handleConfigure(a)

(* Screen::deferral.                                                       *)
deferral(s) ==
    handleConfigure([Check(s, s.deferred, "deferral")
                        EXCEPT !.deferred = FALSE, !.notified = 0])

(* Screen::handleDelete; whether a subprocess runs is the Terminal's.     *)
handleDeleteAtOnce(s) ==
    [s EXCEPT !.destroyed = TRUE,
              !.sinceDelete = IF s.subprocess THEN "delete" ELSE @]

handleDelete(s) ==
    LET a == [s EXCEPT !.sinceDelete = IF s.subprocess THEN "delete" ELSE @]
    IN IF a.subprocess /\ ~a.hadDeleteRequest
       THEN [a EXCEPT !.hadDeleteRequest = TRUE,
                      !.entitlement = "TRANSIENT",
                      !.title = "confirm"]
       ELSE [a EXCEPT !.destroyed = TRUE]

(* Screen::keyPress; accepted is what Terminal::keyPress returns for a    *)
(* key that has a symbol.                                                  *)
screenKeyPress(s, accepted) ==
    IF ~s.open \/ ~accepted THEN s
    ELSE [s EXCEPT !.hadDeleteRequest = FALSE,
                   !.entitlement = IF @ = "TRANSIENT" THEN "PERMANENT" ELSE @,
                   !.title = IF s.entitlement = "TRANSIENT" THEN "title" ELSE @,
                   !.sinceDelete = "clear"]

(* Screen::terminalReaped and EventLoop::windowReaped.                     *)
terminalReaped(s) ==
    [s EXCEPT !.open = FALSE, !.windowOpen = FALSE, !.subprocess = FALSE]

(* Screen::resizeToAccommodate with sync: deferrals are not allowed while *)
(* EventLoop::windowSync runs.                                             *)
resizeToAccommodate(s, nrows, ncols) ==
    IF Size(s.geometry) # <<ncols, nrows>>
    THEN [s EXCEPT !.deferralsAllowed = FALSE]
    ELSE s

(* Screen::~Screen.                                                        *)
destroyScreen(s) ==
    IF s.mapped
    THEN destroySurfaceAndPixmap(CheckPixmap(s, "~Screen"))
    ELSE Check(s, ~s.surface /\ s.pixmap = 0, "~Screen")

(* The X events of the specification.                                      *)
XEvent(type, width, height, x, flag) ==
    [type |-> type, width |-> width, height |-> height, x |-> x, flag |-> flag]

ScreenEvents ==
    {XEvent("CONFIGURE_NOTIFY", sz[2], sz[1], x, reply) :
        sz \in RowSizes, x \in Positions, reply \in BOOLEAN}
    \cup {XEvent(t, 0, 0, 0, FALSE) :
            t \in {"MAP_NOTIFY", "UNMAP_NOTIFY", "EXPOSE", "PROPERTY_NOTIFY",
                   "CLIENT_MESSAGE", "KEY_PRESS"}}
    \cup {XEvent("KEY_PRESS", 0, 0, 0, TRUE)}

(* The server maps and unmaps the window in turn and exposes it only      *)
(* while it is mapped; the window manager asks to delete a window that     *)
(* exists.                                                                 *)
Deliverable(e) ==
    CASE e.type = "MAP_NOTIFY" -> watch.lastMap # "map"
      [] e.type \in {"UNMAP_NOTIFY", "EXPOSE"} -> watch.lastMap = "map"
      [] e.type = "CLIENT_MESSAGE" -> ~watch.destroyed
      [] OTHER -> TRUE

(* EventLoop::dispatch.                                                    *)
screenDispatch(s, e) ==
    CASE e.type = "CONFIGURE_NOTIFY" -> configureNotify(s, e)
      [] e.type = "MAP_NOTIFY" -> [mapNotify(s) EXCEPT !.lastMap = "map"]
      [] e.type = "UNMAP_NOTIFY" -> [unmapNotify(s) EXCEPT !.lastMap = "unmap"]
      [] e.type = "EXPOSE" -> expose(s)
      [] e.type = "PROPERTY_NOTIFY" -> IF s.x11PseudoTransparency THEN redraw(s) ELSE s
      [] e.type = "CLIENT_MESSAGE" -> handleDelete(s)
      [] e.type = "KEY_PRESS" -> screenKeyPress(s, e.flag)

InitDefer ==
    /\ InitCore(1, MaxCols)
    /\ InitHist /\ InitIO
    /\ dispatch = FALSE
    /\ pc = "animate"
    /\ xevents = <<>>
    /\ reached = {}
    /\ open = TRUE
    /\ syncTty = FALSE
    /\ pending = 0
    /\ early = FALSE
    /\ exits = <<>>
    /\ damage = <<>>
    /\ dirty = {}
    /\ mapped = FALSE
    /\ deferred = FALSE
    /\ styles = <<>>
    /\ runs = <<>>
    /\ \E transparency \in BOOLEAN : InitScreenWith(transparency)
    /\ sgr = <<>>

(* The record is computed once and then installed.                         *)
InstallScreen(s, op, args) ==
    \E t \in {s} :
        /\ screen' = [f \in DOMAIN screen |-> t[f]]
        /\ evloop' = [f \in DOMAIN evloop |-> t[f]]
        /\ watch' = [f \in DOMAIN watch |-> t[f]]
        /\ deferred' = t.deferred
        /\ mapped' = t.mapped
        /\ open' = t.open
        /\ IF t.terminalResize = <<>> THEN UNCHANGED coreVars
           ELSE \E priAdj \in BufferResizeAdj(t.terminalResize[1], ResizeRowArgs(M).pri),
                   altAdj \in BufferResizeAdj(t.terminalResize[1], ResizeRowArgs(M).alt) :
                   InstallCursor(resize(M, t.terminalResize[1], t.terminalResize[2],
                                        priAdj, altAdj))
        /\ lastOp' = op
        /\ lastArgs' = args
        /\ UNCHANGED <<req, typed, ioVars, dispatch, xevents, reached, pumpVars,
                       damage, dirty, styles, runs, attrVars>>

(* An X event in EventLoop::xevent, called by animate or by the loop.     *)
ScreenXEvent ==
    /\ pc \in {"animate", "poll"}
    /\ \E e \in ScreenEvents :
          /\ Deliverable(e)
          /\ InstallScreen(screenDispatch(Scr, e), e.type, <<>>)
    /\ UNCHANGED pc

(* The pty is readable: DECCOLM resizes the window and waits for it.      *)
ScreenDECCOLM ==
    /\ pc = "animate"
    /\ open
    /\ \E set \in BOOLEAN :
          LET sz == RowMode(set)
              s  == resizeToAccommodate(Scr, sz[1], sz[2])
          IN /\ InstallScreen(s, "resizeToAccommodate", <<>>)
             /\ pc' = IF s.deferralsAllowed THEN "animate" ELSE "sync"

(* EventLoop::windowSync: an event other than the configure notification. *)
ScreenSyncXEvent ==
    /\ pc = "sync"
    /\ \E e \in ScreenEvents :
          /\ e.type # "CONFIGURE_NOTIFY"
          /\ Deliverable(e)
          /\ InstallScreen(screenDispatch(Scr, e), e.type, <<>>)
    /\ UNCHANGED pc

(* EventLoop::windowSync: the configure notification ends the wait.       *)
ScreenSyncConfigure ==
    /\ pc = "sync"
    /\ \E e \in ScreenEvents :
          /\ e.type = "CONFIGURE_NOTIFY"
          /\ InstallScreen([screenDispatch(Scr, e) EXCEPT !.deferralsAllowed = TRUE],
                           e.type, <<>>)
    /\ pc' = "animate"

(* The pty is readable: Terminal::fixDamage draws if the Screen agrees.   *)
ScreenFixDamage ==
    /\ pc = "animate"
    /\ open
    /\ InstallScreen(IF terminalFixDamageBegin THEN renderPixmap(CheckPixmap(Scr, "fixDamage"))
                     ELSE Scr,
                     "fixDamage", <<terminalFixDamageBegin>>)
    /\ UNCHANGED pc

(* The child has exited and is reaped.                                     *)
ScreenReaped ==
    /\ pc = "animate"
    /\ open
    /\ InstallScreen(terminalReaped(Scr), "terminalReaped", <<>>)
    /\ UNCHANGED pc

(* Selector::animate returns.                                              *)
AnimateReturns ==
    /\ pc = "animate"
    /\ pc' = "poll"
    /\ InstallScreen(Scr, "animate", <<>>)

(* EventLoop::xevent has polled the last event.                            *)
PollReturns ==
    /\ pc = "poll"
    /\ pc' = "deferral"
    /\ InstallScreen(Scr, "xevent", <<>>)

(* EventLoop::loop: if (_deferral) { _window.deferral(); _deferral =      *)
(* false; } and the test of _windowOpen.                                   *)
loopDeferral(s) ==
    IF s.deferral THEN [deferral(s) EXCEPT !.deferral = FALSE] ELSE s

ScreenLoopDeferral ==
    /\ pc = "deferral"
    /\ InstallScreen(loopDeferral(Scr), IF evloop.deferral THEN "deferral" ELSE "loop", <<>>)
    /\ pc' = IF evloop.windowOpen THEN "animate" ELSE "exit"

(* The loop has ended: the Screen is destroyed.                            *)
ScreenDestroy ==
    /\ pc = "exit"
    /\ pc' = "gone"
    /\ InstallScreen(destroyScreen(Scr), "~Screen", <<>>)

NextDefer ==
    \/ ScreenXEvent
    \/ ScreenDECCOLM
    \/ ScreenSyncXEvent
    \/ ScreenSyncConfigure
    \/ ScreenFixDamage
    \/ ScreenReaped
    \/ AnimateReturns
    \/ PollReturns
    \/ ScreenLoopDeferral
    \/ ScreenDestroy

(* Terminal::read returns after the bytes it has pulled, xevent after the *)
(* events queued, and the server answers the request to resize with a     *)
(* configure notification.                                                 *)
SpecScreen == InitDefer /\ [][NextDefer]_vars

SpecDefer ==
    /\ InitDefer
    /\ [][NextDefer]_vars
    /\ SF_vars(AnimateReturns)
    /\ WF_vars(PollReturns)
    /\ WF_vars(ScreenLoopDeferral)
    /\ WF_vars(ScreenSyncConfigure)

(***************************************************************************)
(* C37: however many configure notifications arrive, the observer is      *)
(* notified once per deferral, Screen::deferral runs only while _deferred *)
(* is set, the loop handles every deferral and then the window has the    *)
(* size received last, and while a deferral is outstanding nothing is     *)
(* drawn into a pixmap made for another size than the window has.  The    *)
(* last part fails: Screen::mapNotify and Screen::redraw render without   *)
(* looking at _deferred.                                                   *)
(***************************************************************************)
StalePixmapUntouched == ~watch.drewStale

(* The parts of C37 that hold.                                             *)
DeferralOutstandingOnce ==
    /\ watch.notified <= 1
    /\ evloop.deferral => deferred
    /\ deferred => watch.notified = 1
    /\ "deferral" \notin watch.failed

DeferralProcessed == deferred ~> ~deferred

DeferralAppliesReceived ==
    [][lastOp' = "deferral" =>
          /\ ~deferred'
          /\ Size(screen'.geometry) = watch.received
          /\ screen'.geometry = screen.deferredGeometry \/ ~screen.x11PseudoTransparency
      ]_vars

DeferredDeclinesDrawing ==
    [][deferred /\ lastOp' \in {"EXPOSE", "fixDamage"} =>
          /\ ~watch'.copied
          /\ watch'.drewStale = watch.drewStale
          /\ lastOp' = "fixDamage" => lastArgs' = <<FALSE>>
      ]_vars

(***************************************************************************)
(* C38: between the handlers of a Screen, _mapped is set exactly when     *)
(* _pixmap is non-zero and _surface is non-null, whatever map and unmap   *)
(* notifications (in turn), resizes, moves and redraws it has handled,    *)
(* and no ASSERT of expose, redraw, handleResize, handleMove, renderPixmap *)
(* or the destructor has failed.                                           *)
(***************************************************************************)
MappedIffPixmap ==
    /\ pc # "gone" => (mapped <=> (screen.pixmap # 0 /\ screen.surface))
    /\ screen.pixmap # 0 <=> screen.surface
    /\ watch.failed = {}

(* Reached: the loop has handled the deferred resize of a mapped window,  *)
(* and handleResize has made a new pixmap of the new size.                 *)
MappedIffPixmapWitness ==
    /\ lastOp = "deferral"
    /\ mapped
    /\ screen.pixmap # 0
    /\ screen.geometry.width # MaxCols
    /\ watch.pixmapFor = Size(screen.geometry)

(***************************************************************************)
(* C39: a request to delete the window destroys it exactly if no          *)
(* subprocess runs or the request before it was made while one ran, with  *)
(* no key press the Terminal accepted and no Screen::handleResize since;   *)
(* otherwise it records the request and shows the transient title.  A key *)
(* press the open Terminal accepts and a handleResize cancel the request.  *)
(***************************************************************************)
DeleteConfirmation ==
    /\ [](screen.hadDeleteRequest => watch.sinceDelete = "delete")
    /\ [][lastOp' = "CLIENT_MESSAGE" =>
             /\ watch'.destroyed <=> (~watch.subprocess \/ watch.sinceDelete = "delete")
             /\ ~watch'.destroyed =>
                   /\ screen'.hadDeleteRequest
                   /\ screen'.entitlement = "TRANSIENT"
                   /\ screen'.title = "confirm"
         ]_vars
    /\ [][watch'.sinceDelete = "clear" => ~screen'.hadDeleteRequest]_vars

(* Reached: the second of two requests has destroyed the window while the *)
(* subprocess runs.                                                        *)
DeleteConfirmationWitness ==
    /\ lastOp = "CLIENT_MESSAGE"
    /\ watch.subprocess
    /\ watch.destroyed
    /\ screen.hadDeleteRequest

(***************************************************************************)
(* Specification SpecAttributes: Terminal::processAttributes, one pass of *)
(* its loop at a time, on the argument lists of at most MaxAttrArgs       *)
(* arguments over AttrValues.  Indices count from 0 as in the code.        *)
(***************************************************************************)
MaxAttrArgs == 5

AttrValues == {2, 3, 4, 5, 38, 48, 256}

AttrLists == UNION {[1 .. n -> AttrValues] : n \in 1 .. MaxAttrArgs}

(* args[k], and the record that it was read.                               *)
ArgAt(a, k) == IF k < Len(a.args) THEN a.args[k + 1] ELSE 0

Read(a, ks) == [a EXCEPT !.reads = @ \cup ks]

Indexed(index) == [kind |-> "index", index |-> index]

Direct == [kind |-> "direct", index |-> 0]

SetColor(a, ground, color) ==
    IF ground = "fg" THEN [a EXCEPT !.fg = color] ELSE [a EXCEPT !.bg = color]

(* case 38 and case 48: the extended colours.  i is a size_t, and          *)
(* args.size() is at least 1.                                              *)
extendedColorStoresAny(a, ground) ==
    LET size == Len(a.args)
        i1   == a.i + 1
        sub  == ArgAt(a, i1)
        r    == Read(a, {i1})
    IN IF ~(a.i + 1 < size) THEN a
       ELSE CASE sub = 2 ->
                   IF i1 + 3 < size
                   THEN [SetColor(Read(r, {i1 + 1, i1 + 2, i1 + 3}), ground, Direct)
                            EXCEPT !.i = i1 + 3]
                   ELSE [r EXCEPT !.i = size - 1]
              [] sub = 3 ->
                   IF i1 + 3 < size THEN [r EXCEPT !.i = i1 + 3]
                   ELSE [r EXCEPT !.i = size - 1]
              [] sub = 4 ->
                   IF i1 + 4 < size THEN [r EXCEPT !.i = i1 + 4]
                   ELSE [r EXCEPT !.i = size - 1]
              [] sub = 5 ->
                   IF i1 + 1 < size
                   THEN LET v2 == ArgAt(a, i1 + 1)
                            r2 == [Read(r, {i1 + 1}) EXCEPT !.i = i1 + 1]
                        IN SetColor(r2, ground, Indexed(v2))
                   ELSE [r EXCEPT !.i = size - 1]
              [] OTHER -> [r EXCEPT !.i = i1]

extendedColor(a, ground) ==
    LET size == Len(a.args)
        i1   == a.i + 1
        sub  == ArgAt(a, i1)
        r    == Read(a, {i1})
    IN IF ~(a.i + 1 < size) THEN a
       ELSE CASE sub = 2 ->
                   IF i1 + 3 < size
                   THEN [SetColor(Read(r, {i1 + 1, i1 + 2, i1 + 3}), ground, Direct)
                            EXCEPT !.i = i1 + 3]
                   ELSE [r EXCEPT !.i = size - 1]
              [] sub = 3 ->
                   IF i1 + 3 < size THEN [r EXCEPT !.i = i1 + 3]
                   ELSE [r EXCEPT !.i = size - 1]
              [] sub = 4 ->
                   IF i1 + 4 < size THEN [r EXCEPT !.i = i1 + 4]
                   ELSE [r EXCEPT !.i = size - 1]
              [] sub = 5 ->
                   IF i1 + 1 < size
                   THEN LET v2 == ArgAt(a, i1 + 1)
                            r2 == [Read(r, {i1 + 1}) EXCEPT !.i = i1 + 1]
                        IN IF v2 >= 0 /\ v2 < 256 THEN SetColor(r2, ground, Indexed(v2))
                           ELSE r2
                   ELSE [r EXCEPT !.i = size - 1]
              [] OTHER -> [r EXCEPT !.i = i1]

(* The body of the loop for args[i], and ++i.                              *)
processAttribute(a) ==
    LET v == ArgAt(a, a.i)
        r == Read(a, {a.i})
        b == CASE v = 0 -> [r EXCEPT !.fg = DefaultColor, !.bg = DefaultColor]
               [] v = 38 -> extendedColor(r, "fg")
               [] v = 39 -> [r EXCEPT !.fg = DefaultColor]
               [] v = 48 -> extendedColor(r, "bg")
               [] v = 49 -> [r EXCEPT !.bg = DefaultColor]
               [] v >= 30 /\ v < 38 -> [r EXCEPT !.fg = Indexed(v - 30)]
               [] v >= 40 /\ v < 48 -> [r EXCEPT !.bg = Indexed(v - 40)]
               [] v >= 90 /\ v < 98 -> [r EXCEPT !.fg = Indexed(v - 90 + 8)]
               [] v >= 100 /\ v < 108 -> [r EXCEPT !.bg = Indexed(v - 100 + 8)]
               [] v >= 256 /\ v < 512 -> [r EXCEPT !.fg = Indexed(v - 256)]
               [] v >= 512 /\ v < 768 -> [r EXCEPT !.bg = Indexed(v - 512)]
               [] OTHER -> r
    IN [b EXCEPT !.i = @ + 1]

InstallAttributes(a, op) ==
    /\ sgr' = a
    /\ lastOp' = op
    /\ lastArgs' = a.args
    /\ UNCHANGED <<coreVars, req, typed, ioVars, syncVars, damage, dirty, mapped, deferred,
                   styles, runs, screenVars>>

(* Terminal::processAttributes is called with a non-empty list.            *)
AttrCall ==
    /\ sgr.pc = "idle"
    /\ \E args \in AttrLists :
          InstallAttributes([sgr EXCEPT !.pc = "loop", !.args = args, !.i = 0, !.reads = {}],
                            "processAttributes")

(* for (size_t i = 0; i != args.size(); ++i).                              *)
AttrLoop ==
    /\ sgr.pc = "loop"
    /\ IF sgr.i # Len(sgr.args)
       THEN \E a \in {processAttribute(sgr)} : InstallAttributes(a, "loop")
       ELSE InstallAttributes([sgr EXCEPT !.pc = "done"], "return")

NextAttributes ==
    \/ AttrCall
    \/ AttrLoop

InitSGR ==
    /\ InitCore(MaxRows, MaxCols)
    /\ InitHist /\ InitIO /\ InitSync
    /\ damage = <<>>
    /\ dirty = {}
    /\ mapped = FALSE
    /\ deferred = FALSE
    /\ styles = <<>>
    /\ runs = <<>>
    /\ screen = <<>>
    /\ evloop = <<>>
    /\ watch = <<>>
    /\ InitAttributes

SpecAttributes == InitSGR /\ [][NextAttributes]_vars

(***************************************************************************)
(* C40: on every non-empty argument list processAttributes returns: each  *)
(* pass of its loop advances i and i never passes args.size(); it reads    *)
(* no argument at an index >= args.size(), also when the arguments of 38  *)
(* or 48 are cut short; and the palette index it stores as foreground or   *)
(* background is within 0..255.                                            *)
(***************************************************************************)
AttributesTotal ==
    /\ [](/\ sgr.i <= Len(sgr.args)
          /\ \A k \in sgr.reads : k >= 0 /\ k < Len(sgr.args)
          /\ sgr.fg.index \in 0 .. 255
          /\ sgr.bg.index \in 0 .. 255)
    /\ [][lastOp' = "loop" => sgr'.i > sgr.i]_vars

(* Reached: 38;5 with nothing behind it has been skipped, and the call has *)
(* returned.                                                               *)
AttributesTotalWitness ==
    /\ sgr.pc = "done"
    /\ Len(sgr.args) = 2
    /\ sgr.args[1] = 38 /\ sgr.args[2] = 5
    /\ sgr.reads = {0, 1}
    /\ sgr.fg = DefaultColor

====
